---------------------------- MODULE Spec2Model ----------------------------
(***************************************************************************)
(* The text segmentation engine of rag-toolkit (src/lib/chunking.ts and    *)
(* the copy carrying the recursive splitter in                             *)
(* src/components/ui/ApiKeyManager.tsx).                                   *)
(*                                                                         *)
(* A text is a sequence of one-character strings.  A request (text,        *)
(* method, options, embedding provider behaviour) is drawn by Init; one    *)
(* action per strategy of the dispatcher computes the ChunkingResult the   *)
(* code returns for that request.  Positions are 0-based as in the source; *)
(* the character at 0-based position i of s is s[i + 1].                   *)
(***************************************************************************)
EXTENDS Integers, Sequences, FiniteSets, TLC

VARIABLES entry, text, method, opts, env, pc, result, windows, step

\* the state of the retrieval page (app/home/page.tsx)
VARIABLES finalizedChunks, apiKey, provider, ragPc, batchStart, inflight,
          overtaken, batchResults, errorLog, ragError, embeddingsGenerated,
          query, queryResults

\* the copy of the chunks a running generateEmbeddings works on, and
\* whether finalizeChunks has enabled retrieval since the last resetRag
VARIABLES chunksWithEmbeddings, isRagEnabled

\* the state of performQuery: its flags, its answer, where it is, and the
\* chunk list it closed over when it was invoked
VARIABLES isQuerying, isGeneratingAnswer, gptAnswer, queryPc, queryChunks

queryVars == <<isQuerying, isGeneratingAnswer, gptAnswer, queryPc, queryChunks>>

chunkingVars == <<entry, text, method, opts, env, pc, result, windows, step>>

ragVars ==
  <<finalizedChunks, apiKey, provider, ragPc, batchStart, inflight, overtaken,
    batchResults, errorLog, ragError, embeddingsGenerated, query, queryResults,
    chunksWithEmbeddings, isRagEnabled, queryVars>>

\* the statistics the agentic selector decides on, and what it selected
VARIABLES docStats, selected

selectorVars == <<docStats, selected>>

vars == <<chunkingVars, ragVars, selectorVars>>

-----------------------------------------------------------------------------
(* Numbers                                                                 *)

Max(a, b) == IF a >= b THEN a ELSE b

Min(a, b) == IF a <= b THEN a ELSE b

\* Math.ceil(a / b) for integer a and b > 0
CeilDiv(a, b) == -((-a) \div b)

\* Math.round(a / b) for a >= 0 and b > 0 (round half up)
RoundDiv(a, b) == (2 * a + b) \div (2 * b)

-----------------------------------------------------------------------------
(* Characters and strings                                                  *)

\* the characters the regular expression class \s matches, as far as texts
\* of the model can hold them
WhiteSpace == {" ", "\n", "\t", "\r"}

Upper == {"A", "B", "C", "D", "E", "F", "G", "H", "I", "J", "K", "L", "M",
          "N", "O", "P", "Q", "R", "S", "T", "U", "V", "W", "X", "Y", "Z"}

Lower == {"a", "b", "c", "d", "e", "f", "g", "h", "i", "j", "k", "l", "m",
          "n", "o", "p", "q", "r", "s", "t", "u", "v", "w", "x", "y", "z"}

Digit == {"0", "1", "2", "3", "4", "5", "6", "7", "8", "9"}

\* the class \w
WordChar == Upper \cup Lower \cup Digit \cup {"_"}

IsSpace(c) == c \in WhiteSpace

\* String.prototype.substring(a, b): both ends clamped to [0, length], and
\* swapped when a > b
JSSubstring(s, a, b) ==
  LET ca == Max(0, Min(a, Len(s)))
      cb == Max(0, Min(b, Len(s)))
  IN  SubSeq(s, Min(ca, cb) + 1, Max(ca, cb))

\* the bounds [lo, hi) Array.prototype.slice(start, end) selects: a negative
\* index counts from the end of the array
SliceLo(n, start) == IF start < 0 THEN Max(n + start, 0) ELSE Min(start, n)

SliceHi(n, start, end) ==
  LET lo == SliceLo(n, start)
      hi == IF end < 0 THEN Max(n + end, 0) ELSE Min(end, n)
  IN  Max(lo, hi)

JSSlice(seq, start, end) ==
  SubSeq(seq, SliceLo(Len(seq), start) + 1, SliceHi(Len(seq), start, end))

\* Array.prototype.join(sep) on an array of strings, halving the array
RECURSIVE Join(_, _)
Join(parts, sep) ==
  IF parts = <<>> THEN <<>>
  ELSE IF Len(parts) = 1 THEN parts[1]
  ELSE Join(SubSeq(parts, 1, Len(parts) \div 2), sep) \o sep
         \o Join(SubSeq(parts, Len(parts) \div 2 + 1, Len(parts)), sep)

\* end (exclusive) of the maximal run of whitespace that starts at position i
RECURSIVE WsRunEnd(_, _)
WsRunEnd(s, i) ==
  IF i < Len(s) /\ IsSpace(s[i + 1]) THEN WsRunEnd(s, i + 1) ELSE i

\* String.prototype.trim()
RECURSIVE TrimEnd(_)
TrimEnd(s) ==
  IF s # <<>> /\ IsSpace(s[Len(s)]) THEN TrimEnd(SubSeq(s, 1, Len(s) - 1)) ELSE s

Trim(s) == TrimEnd(SubSeq(s, WsRunEnd(s, 0) + 1, Len(s)))

\* array.filter(Boolean) on an array of strings: the empty strings go
FilterNonEmpty(parts) == SelectSeq(parts, LAMBDA p : p # <<>>)

\* does s hold pat at position i
HasAt(s, i, pat) ==
  /\ i >= 0
  /\ i + Len(pat) <= Len(s)
  /\ SubSeq(s, i + 1, i + Len(pat)) = pat

\* String.prototype.endsWith
EndsWith(s, pat) == HasAt(s, Len(s) - Len(pat), pat)

-----------------------------------------------------------------------------
(* Tokenizer / metrics                                                     *)

\* the tokens of two adjacent stretches of a text: when no whitespace lies
\* between the stretches, the last token of the left one and the first of
\* the right one are one token
GlueTokens(left, right, glued) ==
  IF glued
  THEN SubSeq(left, 1, Len(left) - 1) \o <<left[Len(left)] \o right[1]>> \o Tail(right)
  ELSE left \o right

\* the maximal runs of non-whitespace in s[lo..hi], halving the stretch
RECURSIVE TokScan(_, _, _)
TokScan(s, lo, hi) ==
  IF lo > hi THEN <<>>
  ELSE IF lo = hi THEN (IF IsSpace(s[lo]) THEN <<>> ELSE <<<<s[lo]>>>>)
  ELSE GlueTokens(TokScan(s, lo, (lo + hi) \div 2),
                  TokScan(s, (lo + hi) \div 2 + 1, hi),
                  ~IsSpace(s[(lo + hi) \div 2]) /\ ~IsSpace(s[(lo + hi) \div 2 + 1]))

\* text.split(/\s+/).filter(Boolean)
tokenize(s) == TokScan(s, 1, Len(s))

countTokens(s) == Len(tokenize(s))

-----------------------------------------------------------------------------
(* Options, chunks and results                                             *)

\* an option the caller left out is undefined: its default applies
Opt(o, field, default) == IF field \in DOMAIN o THEN o[field] ELSE default

\* options.field || default : 0 is falsy as well
OptOr(o, field, default) ==
  IF field \in DOMAIN o /\ o[field] # 0 THEN o[field] ELSE default

Chunk(id, t, tokens, characters) ==
  [id |-> id, text |-> t, tokens |-> tokens, characters |-> characters]

\* a chunk measured by the tokenizer, as most strategies build it
Measured(id, t) == Chunk(id, t, countTokens(t), Len(t))

RECURSIVE SumOf(_, _)
SumOf(chunks, field) ==
  IF chunks = <<>> THEN 0 ELSE chunks[1][field] + SumOf(Tail(chunks), field)

\* the ChunkingResult every strategy returns
MkResult(chunks, notes) ==
  [status     |-> "ok",
   chunks     |-> chunks,
   totalChunks |-> Len(chunks),
   avgTokens  |-> IF Len(chunks) > 0
                  THEN RoundDiv(SumOf(chunks, "tokens"), Len(chunks)) ELSE 0,
   avgCharacters |-> IF Len(chunks) > 0
                     THEN RoundDiv(SumOf(chunks, "characters"), Len(chunks)) ELSE 0,
   notes      |-> notes]

\* a call whose loop never exits returns nothing
Diverged ==
  [status |-> "diverged", chunks |-> <<>>, totalChunks |-> 0, avgTokens |-> 0,
   avgCharacters |-> 0, notes |-> [kind |-> "none", a |-> 0, b |-> 0, c |-> 0]]

\* a call that throws
Thrown(what) ==
  [status |-> "error", chunks |-> <<>>, totalChunks |-> 0, avgTokens |-> 0,
   avgCharacters |-> 0, notes |-> [kind |-> what, a |-> 0, b |-> 0, c |-> 0]]

\* analysis.notes: the template that was filled in and the values it shows
Notes(kind, a, b, c) == [kind |-> kind, a |-> a, b |-> b, c |-> c]

\* the outcome of a strategy call: the result it returns, the source windows
\* [lo, hi) (in tokens, sentences, paragraphs or characters) its loop
\* selected, and the step the loop advanced by
Outcome(res, wins, st) == [res |-> res, windows |-> wins, step |-> st]

Window(lo, hi) == [lo |-> lo, hi |-> hi]

\* what a window loop yields: the windows pushed, and whether it exited
LoopEnd(wins, exited) == [windows |-> wins, exited |-> exited]

-----------------------------------------------------------------------------
(* Boundary-snapping character chunking (fixedLengthCharsChunking)         *)

DefaultCharsChunkSize == 500

DefaultCharsOverlap == 50

MinCharsChunkSize == 10

effectiveChunkSizeOf(chunkSize) == Max(MinCharsChunkSize, chunkSize)

\* effectiveOverlapOf without the floor at 0
effectiveOverlapUnfloored(chunkSize, overlap) ==
  Min(effectiveChunkSizeOf(chunkSize) - 1, overlap)

effectiveOverlapOf(chunkSize, overlap) ==
  Min(effectiveChunkSizeOf(chunkSize) - 1, Max(0, overlap))

CharsStep(chunkSize, overlap) ==
  effectiveChunkSizeOf(chunkSize) - effectiveOverlapOf(chunkSize, overlap)

\* Each matcher gives the end (exclusive) of the match of its regular
\* expression that starts exactly at position i of s, or -1.

\* /[.!?]\s+/
SentenceBreakAt(s, i) ==
  IF i < Len(s) /\ s[i + 1] \in {".", "!", "?"} /\ WsRunEnd(s, i + 1) > i + 1
  THEN WsRunEnd(s, i + 1) ELSE -1

\* the last position p in [lo, hi) with s[p] a newline, or -1
RECURSIVE LastNewlineIn(_, _, _)
LastNewlineIn(s, lo, hi) ==
  IF hi <= lo THEN -1
  ELSE IF s[hi] = "\n" THEN hi - 1 ELSE LastNewlineIn(s, lo, hi - 1)

\* /\n\s*\n/ : \s* is greedy, so the match ends after the last newline of
\* the whitespace run that follows the first newline
ParagraphBreakAt(s, i) ==
  IF i < Len(s) /\ s[i + 1] = "\n"
  THEN LET p == LastNewlineIn(s, i + 1, WsRunEnd(s, i + 1))
       IN  IF p >= 0 THEN p + 1 ELSE -1
  ELSE -1

\* /\n/
LineBreakAt(s, i) == IF i < Len(s) /\ s[i + 1] = "\n" THEN i + 1 ELSE -1

\* /\s+/
WordBreakAt(s, i) == IF WsRunEnd(s, i) > i THEN WsRunEnd(s, i) ELSE -1

BreakAt(kind, s, i) ==
  CASE kind = "sentence"  -> SentenceBreakAt(s, i)
    [] kind = "paragraph" -> ParagraphBreakAt(s, i)
    [] kind = "line"      -> LineBreakAt(s, i)
    [] OTHER              -> WordBreakAt(s, i)

\* [...searchText.matchAll(re)]: the matches from left to right, each search
\* resuming where the previous match ended; the end of the last one, or -1
RECURSIVE LastMatchEnd(_, _, _, _)
LastMatchEnd(kind, s, i, last) ==
  IF i >= Len(s) THEN last
  ELSE LET e == BreakAt(kind, s, i)
       IN  IF e < 0 THEN LastMatchEnd(kind, s, i + 1, last)
           ELSE LastMatchEnd(kind, s, e, e)

\* searchRange: Math.ceil(effectiveChunkSize * 0.2), at most targetPos
SearchRange(ecs, targetPos) == Min(targetPos, CeilDiv(ecs, 5))

\* the first kind of break that was found decides, else targetPos
BreakPointOf(minPos, sentence, paragraph, line, word, targetPos) ==
  IF sentence >= 0 THEN minPos + sentence
  ELSE IF paragraph >= 0 THEN minPos + paragraph
  ELSE IF line >= 0 THEN minPos + line
  ELSE IF word >= 0 THEN minPos + word
  ELSE targetPos

\* the end of the last match of each kind in searchText
BreakPointIn(searchText, minPos, targetPos) ==
  BreakPointOf(minPos,
               LastMatchEnd("sentence", searchText, 0, -1),
               LastMatchEnd("paragraph", searchText, 0, -1),
               LastMatchEnd("line", searchText, 0, -1),
               LastMatchEnd("word", searchText, 0, -1),
               targetPos)

findBreakPoint(t, targetPos, ecs) ==
  BreakPointIn(JSSubstring(t, targetPos - SearchRange(ecs, targetPos), targetPos),
               targetPos - SearchRange(ecs, targetPos), targetPos)

\* the end of the window that starts at i
SnappedEnd(t, i, ecs) ==
  LET endPos == Min(i + ecs, Len(t))
  IN  IF endPos < Len(t) THEN findBreakPoint(t, endPos, ecs) ELSE endPos

RECURSIVE CharsLoop(_, _, _, _, _, _)
\* the loop body for the window that starts at i and ends at endPos
CharsIteration(t, ecs, st, maxChunks, i, wins, endPos) ==
  IF 4 * Len(JSSubstring(t, i, endPos)) < ecs /\ Len(wins) > 0 THEN wins
  ELSE IF maxChunks > 0 /\ Len(wins) + 1 >= maxChunks
       THEN Append(wins, Window(i, endPos))
       ELSE CharsLoop(t, ecs, st, maxChunks, i + st, Append(wins, Window(i, endPos)))

CharsLoop(t, ecs, st, maxChunks, i, wins) ==
  IF ~(i < Len(t)) THEN wins
  ELSE CharsIteration(t, ecs, st, maxChunks, i, wins, SnappedEnd(t, i, ecs))

\* finalChunkText = separator ? chunkText + separator : chunkText
CharsChunk(t, w, separator, id) ==
  Measured(id, IF separator # <<>> THEN JSSubstring(t, w.lo, w.hi) \o separator
               ELSE JSSubstring(t, w.lo, w.hi))

CharsChunks(t, wins, separator) ==
  [k \in 1..Len(wins) |-> CharsChunk(t, wins[k], separator, k - 1)]

CharsOutcome(t, wins, separator, ecs, eov, st) ==
  Outcome(MkResult(CharsChunks(t, wins, separator), Notes("chars", Len(wins), ecs, eov)),
          wins, st)

fixedLengthCharsChunking(t, o) ==
  LET chunkSize == Opt(o, "chunkSize", DefaultCharsChunkSize)
      overlap   == Opt(o, "overlap", DefaultCharsOverlap)
      maxChunks == Opt(o, "maxChunks", 0)
      separator == Opt(o, "separator", <<>>)
      ecs       == effectiveChunkSizeOf(chunkSize)
      eov       == effectiveOverlapOf(chunkSize, overlap)
      st        == CharsStep(chunkSize, overlap)
  IN  CharsOutcome(t, CharsLoop(t, ecs, st, maxChunks, 0, <<>>), separator, ecs, eov, st)

-----------------------------------------------------------------------------
(* Fixed-length chunking (fixedLengthChunking)                             *)

DefaultFixedChunkSize == 100

\* chunk sizes above this are taken to be in characters
CharModeThreshold == 200

FixedStep(chunkSize, overlap) ==
  IF overlap > 0 THEN chunkSize - overlap ELSE chunkSize

\* The for loops of the two naive paths.  With step = 0 the loop variable
\* never moves: once a chunk has been pushed every iteration sees the same
\* slice, so an iteration that pushes is followed by the same one for ever.
\* With step < 0 the slice bounds reach 0 and the empty slice ends the loop.
RECURSIVE FixedTokenLoop(_, _, _, _, _)
FixedTokenLoop(n, chunkSize, st, i, wins) ==
  IF ~(i < n) THEN LoopEnd(wins, TRUE)
  ELSE LET lo == SliceLo(n, i)
           hi == SliceHi(n, i, i + chunkSize)
       IN  IF 4 * (hi - lo) < chunkSize /\ Len(wins) > 0 THEN LoopEnd(wins, TRUE)
           ELSE IF st = 0 /\ Len(wins) > 0 THEN LoopEnd(wins, FALSE)
           ELSE FixedTokenLoop(n, chunkSize, st, i + st, Append(wins, Window(lo, hi)))

RECURSIVE FixedCharLoop(_, _, _, _, _)
FixedCharLoop(n, chunkSize, st, i, wins) ==
  IF ~(i < n) THEN LoopEnd(wins, TRUE)
  ELSE LET lo == Max(0, Min(i, n))
           hi == Max(lo, Max(0, Min(i + chunkSize, n)))
       IN  IF 4 * (hi - lo) < chunkSize /\ Len(wins) > 0 THEN LoopEnd(wins, TRUE)
           ELSE IF st = 0 /\ Len(wins) > 0 THEN LoopEnd(wins, FALSE)
           ELSE FixedCharLoop(n, chunkSize, st, i + st, Append(wins, Window(lo, hi)))

\* token-mode chunk: the tokens joined by one space, counted by their number
TokenChunk(tokens, w, id) ==
  Chunk(id, Join(SubSeq(tokens, w.lo + 1, w.hi), <<" ">>),
        Len(SubSeq(tokens, w.lo + 1, w.hi)),
        Len(Join(SubSeq(tokens, w.lo + 1, w.hi), <<" ">>)))

TokenChunks(tokens, wins) == [k \in 1..Len(wins) |-> TokenChunk(tokens, wins[k], k - 1)]

SubstringChunk(t, w, id) == Measured(id, JSSubstring(t, w.lo, w.hi))

SubstringChunks(t, wins) == [k \in 1..Len(wins) |-> SubstringChunk(t, wins[k], k - 1)]

\* what a strategy returns once its loop has ended, if it ends
LoopOutcome(loop, chunks, notes, st) ==
  IF loop.exited THEN Outcome(MkResult(chunks, notes), loop.windows, st)
  ELSE Outcome(Diverged, loop.windows, st)

FixedCharResult(t, chunkSize, overlap, loop) ==
  LoopOutcome(loop, SubstringChunks(t, loop.windows),
              Notes("fixed-characters", Len(loop.windows), chunkSize, overlap),
              FixedStep(chunkSize, overlap))

FixedTokenResult(tokens, chunkSize, overlap, loop) ==
  LoopOutcome(loop, TokenChunks(tokens, loop.windows),
              Notes("fixed-tokens", Len(loop.windows), chunkSize, overlap),
              FixedStep(chunkSize, overlap))

\* the token path, tokens = tokenize(text)
FixedTokenPath(tokens, chunkSize, overlap) ==
  FixedTokenResult(tokens, chunkSize, overlap,
                   FixedTokenLoop(Len(tokens), chunkSize, FixedStep(chunkSize, overlap),
                                  0, <<>>))

\* the legacy character path
FixedCharPath(t, chunkSize, overlap) ==
  FixedCharResult(t, chunkSize, overlap,
                  FixedCharLoop(Len(t), chunkSize, FixedStep(chunkSize, overlap), 0, <<>>))

fixedLengthChunking(t, o) ==
  LET chunkSize == Opt(o, "chunkSize", DefaultFixedChunkSize)
      overlap   == Opt(o, "overlap", 0)
      mode      == Opt(o, "chunkingMode", "undefined")
      isCharacterBased ==
        mode = "characters" \/ (mode # "tokens" /\ chunkSize > CharModeThreshold)
  IN  IF isCharacterBased
      THEN IF mode = "characters" THEN fixedLengthCharsChunking(t, o)
           ELSE FixedCharPath(t, chunkSize, overlap)
      ELSE FixedTokenPath(tokenize(t), chunkSize, overlap)

-----------------------------------------------------------------------------
(* Sliding window chunking (slidingWindowChunking)                         *)

DefaultWindowChunkSize == 100

DefaultWindowOverlap == 50

\* const maxChunks = 100
WindowMaxChunks == 100

WindowStep(chunkSize, overlap) == Max(1, chunkSize - overlap)

\* adjustedStepOf without the widening: the natural step whatever the length
naturalStepOf(n, chunkSize, overlap) == WindowStep(chunkSize, overlap)

adjustedStepOf(n, chunkSize, overlap) ==
  LET st == WindowStep(chunkSize, overlap)
      estimatedChunks == CeilDiv(n, st)
  IN  IF estimatedChunks > WindowMaxChunks THEN CeilDiv(n, WindowMaxChunks) ELSE st

RECURSIVE WindowLoop(_, _, _, _, _)
WindowLoop(n, chunkSize, st, i, wins) ==
  IF ~(i < n) THEN wins
  ELSE LET end == Min(i + chunkSize, n)
       IN  IF 4 * Max(0, end - i) < chunkSize /\ Len(wins) > 0 THEN wins
           ELSE IF Len(wins) + 1 >= WindowMaxChunks THEN Append(wins, Window(i, end))
           ELSE WindowLoop(n, chunkSize, st, i + st, Append(wins, Window(i, end)))

WindowCharResult(t, chunkSize, st, wins) ==
  Outcome(MkResult(SubstringChunks(t, wins),
                   Notes("window-characters", Len(wins), chunkSize, st)),
          wins, st)

WindowTokenResult(tokens, chunkSize, st, wins) ==
  Outcome(MkResult(TokenChunks(tokens, wins),
                   Notes("window-tokens", Len(wins), chunkSize, st)),
          wins, st)

\* the token path, tokens = tokenize(text)
WindowTokenPath(tokens, chunkSize, overlap) ==
  WindowTokenResult(tokens, chunkSize, adjustedStepOf(Len(tokens), chunkSize, overlap),
                    WindowLoop(Len(tokens), chunkSize,
                               adjustedStepOf(Len(tokens), chunkSize, overlap), 0, <<>>))

WindowCharPath(t, chunkSize, overlap) ==
  WindowCharResult(t, chunkSize, adjustedStepOf(Len(t), chunkSize, overlap),
                   WindowLoop(Len(t), chunkSize,
                              adjustedStepOf(Len(t), chunkSize, overlap), 0, <<>>))

slidingWindowChunking(t, o) ==
  LET chunkSize == Opt(o, "chunkSize", DefaultWindowChunkSize)
      overlap   == Opt(o, "overlap", DefaultWindowOverlap)
  IN  IF chunkSize > CharModeThreshold THEN WindowCharPath(t, chunkSize, overlap)
      ELSE WindowTokenPath(tokenize(t), chunkSize, overlap)

-----------------------------------------------------------------------------
(* Sentence boundary detection (sentenceBasedChunking, lines 170-224)      *)

\* the full-width terminators are single characters, written by code point
SentenceEnd == {".", "?", "!", "u3002", "uFF1F", "uFF01"}

\* [A-Z"'([{<]
SentenceStart == Upper \cup {"\"", "'", "(", "[", "{", "<"}

Abbreviations ==
  {<<"M", "r">>, <<"M", "r", "s">>, <<"M", "s">>, <<"D", "r">>,
   <<"P", "r", "o", "f">>, <<"R", "e", "v">>, <<"C", "o", "l">>, <<"G", "e", "n">>,
   <<"L", "t">>, <<"C", "m", "d", "r">>, <<"S", "g", "t">>, <<"C", "a", "p", "t">>,
   <<"M", "a", "j">>, <<"S", "e", "n">>, <<"R", "e", "p">>, <<"H", "o", "n">>,
   <<"e", "t", "c">>, <<"v", "s">>, <<"i", ".", "e">>, <<"e", ".", "g">>}

Titles ==
  {<<"M", "r">>, <<"M", "r", "s">>, <<"M", "s">>, <<"D", "r">>, <<"P", "r", "o", "f">>}

PLACEHOLDER == <<"_", "P", "L", "A", "C", "E", "H", "O", "L", "D", "E", "R", "_">>

DECIMAL == <<"_", "D", "E", "C", "I", "M", "A", "L", "_">>

\* \b in front of a word character at position i
WordStartsAt(s, i) == i = 0 \/ (i > 0 /\ s[i] \notin WordChar)

\* (?<!\b(?:Mr|...|e\.g)\.) fails at q: an abbreviation and its period end there
AbbreviationBefore(s, q) ==
  \E a \in Abbreviations :
    /\ HasAt(s, q - Len(a) - 1, a \o <<".">>)
    /\ WordStartsAt(s, q - Len(a) - 1)

\* (?<!\w\.\w.) fails at q (the last character is the terminator itself)
InitialismBefore(s, q) ==
  /\ q >= 4
  /\ s[q - 3] \in WordChar
  /\ s[q - 2] = "."
  /\ s[q - 1] \in WordChar
  /\ s[q] \notin {"\n", "\r"}

\* sentenceRegex matched exactly at q by its \s+ branch: the end of the
\* match, or -1.  The whitespace run is taken whole, and must be followed by
\* a sentence start or by the end of the input.
SentenceSplitAt(s, q) ==
  IF /\ q >= 1
     /\ q < Len(s)
     /\ s[q] \in SentenceEnd
     /\ ~AbbreviationBefore(s, q)
     /\ ~InitialismBefore(s, q)
     /\ WsRunEnd(s, q) > q
     /\ (WsRunEnd(s, q) = Len(s) \/ s[WsRunEnd(s, q) + 1] \in SentenceStart)
  THEN WsRunEnd(s, q) ELSE -1

\* sentenceRegex matched at the very end of the input by its $ branch
SentenceEndAtEof(s) ==
  /\ Len(s) >= 1
  /\ s[Len(s)] \in SentenceEnd
  /\ ~AbbreviationBefore(s, Len(s))
  /\ ~InitialismBefore(s, Len(s))

\* the last position p in [lo, hi) where "\r\n" starts, or -1
RECURSIVE LastCrLfIn(_, _, _)
LastCrLfIn(s, lo, hi) ==
  IF hi - lo < 2 THEN -1
  ELSE IF s[hi - 1] = "\r" /\ s[hi] = "\n" THEN hi - 2
  ELSE LastCrLfIn(s, lo, hi - 1)

\* end of the maximal run of characters of set cs that starts at i
RECURSIVE RunEnd(_, _, _)
RunEnd(s, i, cs) ==
  IF i < Len(s) /\ s[i + 1] \in cs THEN RunEnd(s, i + 1, cs) ELSE i

\* /\r\n\s*\r\n/
WindowsBreakAt(s, i) ==
  IF HasAt(s, i, <<"\r", "\n">>)
  THEN LET p == LastCrLfIn(s, i + 2, WsRunEnd(s, i + 2))
       IN  IF p >= 0 THEN p + 2 ELSE -1
  ELSE -1

\* /\n\s*[-_*]{3,}\s*\n/
RuleBreakAt(s, i) ==
  IF i < Len(s) /\ s[i + 1] = "\n"
  THEN LET r0 == WsRunEnd(s, i + 1)
           r1 == RunEnd(s, r0, {"-", "_", "*"})
           p  == LastNewlineIn(s, r1, WsRunEnd(s, r1))
       IN  IF r1 - r0 >= 3 /\ p >= 0 THEN p + 1 ELSE -1
  ELSE -1

\* /\n\s*#{1,6}\s+/
HeaderBreakAt(s, i) ==
  IF i < Len(s) /\ s[i + 1] = "\n"
  THEN LET h0 == WsRunEnd(s, i + 1)
           h1 == RunEnd(s, h0, {"#"})
       IN  IF h1 - h0 >= 1 /\ h1 - h0 <= 6 /\ WsRunEnd(s, h1) > h1
           THEN WsRunEnd(s, h1) ELSE -1
  ELSE -1

\* the first alternative that matches decides
FirstMatchOf(a, b, c, d) ==
  IF a >= 0 THEN a ELSE IF b >= 0 THEN b ELSE IF c >= 0 THEN c ELSE d

\* combinedSeparator of paragraphBasedChunking: the alternatives in order
CombinedBreakAt(s, i) ==
  FirstMatchOf(ParagraphBreakAt(s, i), WindowsBreakAt(s, i), RuleBreakAt(s, i),
               HeaderBreakAt(s, i))

SeparatorAt(kind, s, i) ==
  CASE kind = "blank-line" -> ParagraphBreakAt(s, i)
    [] kind = "sentence"   -> SentenceSplitAt(s, i)
    [] OTHER               -> CombinedBreakAt(s, i)

\* String.prototype.split(regexp): q walks the string, a match at q that
\* ends at e cuts s[p, q) off and the walk resumes at e
RECURSIVE RegexSplit(_, _, _, _, _)
\* the walk at q, where the separator matches up to e (or not: e = -1)
RegexSplitAt(kind, s, p, q, acc, e) ==
  IF e < 0 \/ e = p THEN RegexSplit(kind, s, p, q + 1, acc)
  ELSE RegexSplit(kind, s, e, e, Append(acc, SubSeq(s, p + 1, q)))

RegexSplit(kind, s, p, q, acc) ==
  IF q >= Len(s) THEN Append(acc, SubSeq(s, p + 1, Len(s)))
  ELSE RegexSplitAt(kind, s, p, q, acc, SeparatorAt(kind, s, q))

\* text.split(/\n\s*\n/).filter(Boolean)
BlankLineParagraphs(s) == FilterNonEmpty(RegexSplit("blank-line", s, 0, 0, <<>>))

\* the end of a title, its period and whitespace where a capital follows
\* (/(\b(?:Mr|Mrs|Ms|Dr|Prof)\.\s+)([A-Z])/ matched at i): the position of
\* the capital, or -1
TitleSiteAt(s, i) ==
  IF /\ WordStartsAt(s, i)
     /\ \E t \in Titles :
          /\ HasAt(s, i, t \o <<".">>)
          /\ WsRunEnd(s, i + Len(t) + 1) > i + Len(t) + 1
          /\ WsRunEnd(s, i + Len(t) + 1) < Len(s)
          /\ s[WsRunEnd(s, i + Len(t) + 1) + 1] \in Upper
  THEN LET t == CHOOSE t \in Titles :
                  /\ HasAt(s, i, t \o <<".">>)
                  /\ WsRunEnd(s, i + Len(t) + 1) > i + Len(t) + 1
       IN  WsRunEnd(s, i + Len(t) + 1)
  ELSE -1

RECURSIVE ProtectTitles(_, _, _)
\* the replacement at i, where the title's match reaches the capital at e
ProtectTitleAt(s, i, out, e) ==
  IF e < 0 THEN ProtectTitles(s, i + 1, Append(out, s[i + 1]))
  ELSE ProtectTitles(s, e + 1, out \o SubSeq(s, i + 1, e) \o PLACEHOLDER \o <<s[e + 1]>>)

ProtectTitles(s, i, out) ==
  IF i >= Len(s) THEN out ELSE ProtectTitleAt(s, i, out, TitleSiteAt(s, i))

\* /(\d+\.\d+)/ matched at i: the end of the match, or -1
DecimalAt(s, i) ==
  LET d1 == RunEnd(s, i, Digit)
      d2 == RunEnd(s, d1 + 1, Digit)
  IN  IF d1 > i /\ d1 < Len(s) /\ s[d1 + 1] = "." /\ d2 > d1 + 1 THEN d2 ELSE -1

RECURSIVE ProtectDecimals(_, _, _)
ProtectDecimalAt(s, i, out, e) ==
  IF e < 0 THEN ProtectDecimals(s, i + 1, Append(out, s[i + 1]))
  ELSE ProtectDecimals(s, e, out \o SubSeq(s, i + 1, e) \o DECIMAL)

ProtectDecimals(s, i, out) ==
  IF i >= Len(s) THEN out ELSE ProtectDecimalAt(s, i, out, DecimalAt(s, i))

preprocessText(input) == ProtectDecimals(ProtectTitles(input, 0, <<>>), 0, <<>>)

\* input.replace(/pat/g, '') for a literal pat
RECURSIVE RemoveAll(_, _, _, _)
RemoveAll(s, pat, i, out) ==
  IF i >= Len(s) THEN out
  ELSE IF HasAt(s, i, pat) THEN RemoveAll(s, pat, i + Len(pat), out)
  ELSE RemoveAll(s, pat, i + 1, Append(out, s[i + 1]))

postprocessText(input) ==
  RemoveAll(RemoveAll(input, PLACEHOLDER, 0, <<>>), DECIMAL, 0, <<>>)

HasSentenceEnd(s) == \E k \in 1..Len(s) : s[k] \in SentenceEnd

\* paragraph.split(sentenceRegex).map(s => postprocessText(s.trim())).filter(Boolean)
SplitSentences(parts) ==
  FilterNonEmpty([k \in 1..Len(parts) |-> postprocessText(Trim(parts[k]))])

\* found if it holds anything, else the one fallback
OrOnly(found, fallback) == IF found = <<>> THEN <<fallback>> ELSE found

\* the sentences one paragraph contributes
ParagraphSentences(paragraph) ==
  IF ~HasSentenceEnd(paragraph) THEN <<postprocessText(paragraph)>>
  ELSE OrOnly(SplitSentences(RegexSplit("sentence", paragraph, 0, 0, <<>>)),
              postprocessText(paragraph))

RECURSIVE FlatMapSentences(_)
FlatMapSentences(paragraphs) ==
  IF paragraphs = <<>> THEN <<>>
  ELSE ParagraphSentences(paragraphs[1]) \o FlatMapSentences(Tail(paragraphs))

allSentencesOf(t) ==
  OrOnly(FlatMapSentences(BlankLineParagraphs(preprocessText(t))), t)

-----------------------------------------------------------------------------
(* Sentence-based chunking (sentenceBasedChunking, lines 226-266)          *)

DefaultSentenceChunkSize == 5

SentenceStep(chunkSize, overlap) ==
  IF overlap > 0 THEN chunkSize - overlap ELSE chunkSize

\* the sentences grouping looks at: maxChunks caps them before grouping
sentencesToProcessOf(allSentences, chunkSize, maxChunks) ==
  JSSlice(allSentences, 0,
          IF maxChunks > 0 THEN maxChunks * chunkSize ELSE Len(allSentences))

\* as FixedTokenLoop; the fragment threshold is Math.max(1, chunkSize / 4)
RECURSIVE SentenceLoop(_, _, _, _, _)
SentenceLoop(n, chunkSize, st, i, wins) ==
  IF ~(i < n) THEN LoopEnd(wins, TRUE)
  ELSE LET lo == SliceLo(n, i)
           hi == SliceHi(n, i, i + chunkSize)
       IN  IF (hi - lo < 1 \/ 4 * (hi - lo) < chunkSize) /\ Len(wins) > 0
           THEN LoopEnd(wins, TRUE)
           ELSE IF st = 0 /\ Len(wins) > 0 THEN LoopEnd(wins, FALSE)
           ELSE SentenceLoop(n, chunkSize, st, i + st, Append(wins, Window(lo, hi)))

\* a chunk of grouped units (sentences or paragraphs) joined by sep
GroupChunk(units, w, sep, id) == Measured(id, Join(SubSeq(units, w.lo + 1, w.hi), sep))

GroupChunks(units, wins, sep) ==
  [k \in 1..Len(wins) |-> GroupChunk(units, wins[k], sep, k - 1)]

SentenceResult(sentenceCount, sentencesToProcess, chunkSize, overlap, maxChunks, loop) ==
  LoopOutcome(loop, GroupChunks(sentencesToProcess, loop.windows, <<" ">>),
              Notes("sentence", sentenceCount, chunkSize, maxChunks),
              SentenceStep(chunkSize, overlap))

\* the grouping loop over sentencesToProcess
SentenceGrouping(sentenceCount, sentencesToProcess, chunkSize, overlap, maxChunks) ==
  SentenceResult(sentenceCount, sentencesToProcess, chunkSize, overlap, maxChunks,
                 SentenceLoop(Len(sentencesToProcess), chunkSize,
                              SentenceStep(chunkSize, overlap), 0, <<>>))

\* grouping once the sentences are known
SentenceGroups(allSentences, chunkSize, overlap, maxChunks) ==
  SentenceGrouping(Len(allSentences),
                   sentencesToProcessOf(allSentences, chunkSize, maxChunks),
                   chunkSize, overlap, maxChunks)

sentenceBasedChunking(t, o) ==
  SentenceGroups(allSentencesOf(t), Opt(o, "chunkSize", DefaultSentenceChunkSize),
                 Opt(o, "overlap", 0), Opt(o, "maxChunks", 0))

-----------------------------------------------------------------------------
(* Paragraph-based chunking (paragraphBasedChunking)                       *)

DefaultParagraphsPerChunk == 3

\* text.split(combinedSeparator).map(p => p.trim()).filter(Boolean)
TrimmedParts(parts) == FilterNonEmpty([k \in 1..Len(parts) |-> Trim(parts[k])])

paragraphsOf(t) == OrOnly(TrimmedParts(RegexSplit("combined", t, 0, 0, <<>>)), t)

paragraphsPerChunkOf(chunkSize) ==
  IF chunkSize > 0 THEN chunkSize ELSE DefaultParagraphsPerChunk

adjustedParagraphsPerChunkOf(n, chunkSize, maxChunks) ==
  IF maxChunks > 0 /\ n > maxChunks * paragraphsPerChunkOf(chunkSize)
  THEN CeilDiv(n, maxChunks)
  ELSE paragraphsPerChunkOf(chunkSize)

ParagraphStep(perChunk, overlap) ==
  IF overlap > 0 THEN Max(1, perChunk - overlap) ELSE perChunk

RECURSIVE ParagraphLoop(_, _, _, _, _, _)
ParagraphLoop(n, perChunk, st, maxChunks, i, wins) ==
  IF ~(i < n) THEN wins
  ELSE LET lo == SliceLo(n, i)
           hi == SliceHi(n, i, i + perChunk)
       IN  IF (hi - lo < 1 \/ 3 * (hi - lo) < perChunk) /\ Len(wins) > 0 THEN wins
           ELSE IF maxChunks > 0 /\ Len(wins) + 1 >= maxChunks
                THEN Append(wins, Window(lo, hi))
                ELSE ParagraphLoop(n, perChunk, st, maxChunks, i + st,
                                   Append(wins, Window(lo, hi)))

ParagraphResult(paragraphs, perChunk, st, wins) ==
  Outcome(MkResult(GroupChunks(paragraphs, wins, <<"\n", "\n">>),
                   Notes("paragraph", Len(paragraphs), Len(wins), perChunk)),
          wins, st)

ParagraphGrouping(paragraphs, perChunk, overlap, maxChunks) ==
  ParagraphResult(paragraphs, perChunk, ParagraphStep(perChunk, overlap),
                  ParagraphLoop(Len(paragraphs), perChunk, ParagraphStep(perChunk, overlap),
                                maxChunks, 0, <<>>))

\* grouping once the paragraphs are known
ParagraphGroups(paragraphs, chunkSize, overlap, maxChunks) ==
  ParagraphGrouping(paragraphs,
                    adjustedParagraphsPerChunkOf(Len(paragraphs), chunkSize, maxChunks),
                    overlap, maxChunks)

paragraphBasedChunking(t, o) ==
  ParagraphGroups(paragraphsOf(t), Opt(o, "chunkSize", 0), Opt(o, "overlap", 0),
                  Opt(o, "maxChunks", 0))

-----------------------------------------------------------------------------
(* Heuristic structural fallback (heuristicSemanticChunking)               *)

\* chunks under this many tokens are merged into the chunk before them
SmallChunkTokens == 20

\* String.prototype.split(sep) for a non-empty literal sep
RECURSIVE LiteralSplit(_, _, _, _, _)
LiteralSplit(s, sep, p, q, acc) ==
  IF q + Len(sep) > Len(s) THEN Append(acc, SubSeq(s, p + 1, Len(s)))
  ELSE IF HasAt(s, q, sep)
       THEN LiteralSplit(s, sep, q + Len(sep), q + Len(sep),
                         Append(acc, SubSeq(s, p + 1, q)))
       ELSE LiteralSplit(s, sep, p, q + 1, acc)

\* String.prototype.split(sep): the empty separator splits into characters
StringSplit(s, sep) ==
  IF sep = <<>> THEN [k \in 1..Len(s) |-> <<s[k]>>]
  ELSE LiteralSplit(s, sep, 0, 0, <<>>)

linesOf(t) == StringSplit(t, <<"\n">>)

\* /^#{1,6}\s+/
IsHeaderLine(line) ==
  LET h == RunEnd(line, 0, {"#"})
  IN  h >= 1 /\ h <= 6 /\ WsRunEnd(line, h) > h

\* /^[-_*]{3,}\s*$/
IsRuleLine(line) ==
  LET r == RunEnd(line, 0, {"-", "_", "*"})
  IN  r >= 3 /\ WsRunEnd(line, r) = Len(line)

\* /^\s*1\.\s+/
IsListStartLine(line) ==
  LET w == WsRunEnd(line, 0)
  IN  HasAt(line, w, <<"1", ".">>) /\ WsRunEnd(line, w + 2) > w + 2

IsBlankLine(line) == Trim(line) = <<>>

\* does the forEach push line index (0-based) as a boundary
IsBoundaryLine(lines, index) ==
  \/ IsHeaderLine(lines[index + 1])
  \/ IsRuleLine(lines[index + 1])
  \/ IsListStartLine(lines[index + 1])
  \/ /\ IsBlankLine(lines[index + 1])
     /\ index > 0
     /\ index < Len(lines) - 1
     /\ ~IsBlankLine(lines[index])
     /\ ~IsBlankLine(lines[index + 2])

RECURSIVE BoundaryScan(_, _, _)
BoundaryScan(lines, index, acc) ==
  IF index >= Len(lines) THEN Append(acc, Len(lines))
  ELSE BoundaryScan(lines, index + 1,
                    IF IsBoundaryLine(lines, index) THEN Append(acc, index) ELSE acc)

semanticBoundariesOf(lines) == BoundaryScan(lines, 0, <<0>>)

\* the chunks between consecutive boundaries at least two lines apart
RECURSIVE RawChunks(_, _, _, _)
RawChunks(lines, bounds, i, acc) ==
  IF i >= Len(bounds) THEN acc
  ELSE LET startLine == bounds[i]
           endLine   == bounds[i + 1]
       IN  IF endLine - startLine < 2 THEN RawChunks(lines, bounds, i + 1, acc)
           ELSE RawChunks(lines, bounds, i + 1,
                  Append(acc, Measured(Len(acc),
                                Join(SubSeq(lines, startLine + 1, endLine), <<"\n">>))))

\* Absorb that does not count the joiner's characters
AbsorbUncounted(currentChunk, chunk, joiner) ==
  [currentChunk EXCEPT !.text = @ \o joiner \o chunk.text,
                       !.tokens = @ + chunk.tokens,
                       !.characters = @ + chunk.characters]

\* currentChunk absorbing chunk, the joiner being joinLen characters long
Absorb(currentChunk, chunk, joiner) ==
  [currentChunk EXCEPT !.text = @ \o joiner \o chunk.text,
                       !.tokens = @ + chunk.tokens,
                       !.characters = @ + chunk.characters + Len(joiner)]

\* a merge step that leaves every raw chunk as a chunk of its own
KeepRaw(raw, k, done, cur) == raw

\* the forEach of lines 874-890: done holds the chunks pushed, cur the
\* current chunk (<<>> while there is none, <<c>> otherwise)
RECURSIVE MergeSmall(_, _, _, _)
MergeSmall(raw, k, done, cur) ==
  IF k > Len(raw) THEN done \o cur
  ELSE IF cur = <<>> THEN MergeSmall(raw, k + 1, done, <<raw[k]>>)
  ELSE IF raw[k].tokens < SmallChunkTokens
       THEN MergeSmall(raw, k + 1, done, <<Absorb(cur[1], raw[k], <<"\n">>)>>)
       ELSE MergeSmall(raw, k + 1, done \o cur, <<raw[k]>>)

\* Renumber without the renumbering: the ids stay as they were
KeepIds(chunks) == chunks

\* chunk.id = index for every chunk
Renumber(chunks) == [k \in 1..Len(chunks) |-> [chunks[k] EXCEPT !.id = k - 1]]

\* maxChunks > 0 && list.length > maxChunks ? list.slice(0, maxChunks) : list
Truncate(list, maxChunks) ==
  IF maxChunks > 0 /\ Len(list) > maxChunks THEN JSSlice(list, 0, maxChunks) ELSE list

HeuristicResult(boundaryCount, finalChunks) ==
  Outcome(MkResult(finalChunks, Notes("heuristic", boundaryCount - 1, Len(finalChunks), 0)),
          <<>>, 0)

\* from the raw chunks on: fallback, merge, truncation, renumbering
HeuristicChunks(t, o, boundaryCount, rawChunks) ==
  IF rawChunks = <<>> THEN paragraphBasedChunking(t, o)
  ELSE HeuristicResult(boundaryCount,
         Renumber(Truncate(MergeSmall(rawChunks, 1, <<>>, <<>>), Opt(o, "maxChunks", 0))))

HeuristicBounded(t, o, lines, bounds) ==
  HeuristicChunks(t, o, Len(bounds), RawChunks(lines, bounds, 1, <<>>))

HeuristicLines(t, o, lines) == HeuristicBounded(t, o, lines, semanticBoundariesOf(lines))

heuristicSemanticChunking(t, o) ==
  IF Len(BlankLineParagraphs(t)) <= 1 THEN paragraphBasedChunking(t, o)
  ELSE HeuristicLines(t, o, linesOf(t))

-----------------------------------------------------------------------------
(* Hybrid composer (hybridChunking)                                        *)

DefaultHybridChunkSize == 100

\* the caller gave no options
NoOptions == <<>>

\* how one paragraph chunk is re-chunked: the outcome of the strategy used
HybridPart(paragraph, maxTokensPerChunk, overlap) ==
  IF paragraph.tokens <= maxTokensPerChunk
  THEN Outcome(MkResult(<<paragraph>>, Notes("kept", 0, 0, 0)), <<>>, 0)
  ELSE IF paragraph.tokens <= maxTokensPerChunk * 2
  THEN sentenceBasedChunking(paragraph.text,
         [chunkSize |-> CeilDiv(maxTokensPerChunk, 10),
          overlap   |-> CeilDiv(overlap, 10)])
  ELSE slidingWindowChunking(paragraph.text,
         [chunkSize |-> maxTokensPerChunk, overlap |-> overlap])

\* chunks.push({id: chunks.length, ...}) for every chunk of more
RECURSIVE PushAll(_, _)
PushAll(chunks, more) ==
  IF more = <<>> THEN chunks
  ELSE PushAll(Append(chunks, [more[1] EXCEPT !.id = Len(chunks)]), Tail(more))

RECURSIVE HybridFlatten(_, _, _, _)
HybridFlatten(paragraphChunks, maxTokensPerChunk, overlap, chunks) ==
  IF paragraphChunks = <<>> THEN chunks
  ELSE HybridFlatten(Tail(paragraphChunks), maxTokensPerChunk, overlap,
         PushAll(chunks,
                 HybridPart(paragraphChunks[1], maxTokensPerChunk, overlap).res.chunks))

\* the merge loop of lines 989-1007
RECURSIVE HybridMergeLoop(_, _, _, _, _)
HybridMergeLoop(chunks, maxTokensPerChunk, i, merged, cur) ==
  IF i > Len(chunks) THEN merged \o cur
  ELSE IF cur = <<>> THEN HybridMergeLoop(chunks, maxTokensPerChunk, i + 1, merged, <<chunks[i]>>)
  ELSE IF cur[1].tokens + chunks[i].tokens <= maxTokensPerChunk
       THEN HybridMergeLoop(chunks, maxTokensPerChunk, i + 1, merged,
                            <<Absorb(cur[1], chunks[i], <<"\n", "\n">>)>>)
       ELSE HybridMergeLoop(chunks, maxTokensPerChunk, i + 1, merged \o cur, <<chunks[i]>>)

HybridMerge(chunks, maxTokensPerChunk) ==
  IF Len(chunks) > 1
  THEN Renumber(HybridMergeLoop(chunks, maxTokensPerChunk, 1, <<>>, <<>>))
  ELSE chunks

HybridResult(chunks, maxTokensPerChunk, overlap) ==
  Outcome(MkResult(chunks, Notes("hybrid", Len(chunks), maxTokensPerChunk, overlap)),
          <<>>, 0)

\* from the paragraph chunks on; a part whose loop never exits stops it all
HybridParts(paragraphChunks, maxTokensPerChunk, overlap) ==
  IF \E k \in 1..Len(paragraphChunks) :
       HybridPart(paragraphChunks[k], maxTokensPerChunk, overlap).res.status = "diverged"
  THEN Outcome(Diverged, <<>>, 0)
  ELSE HybridResult(HybridMerge(HybridFlatten(paragraphChunks, maxTokensPerChunk,
                                              overlap, <<>>),
                                maxTokensPerChunk),
                    maxTokensPerChunk, overlap)

hybridChunking(t, o) ==
  HybridParts(paragraphBasedChunking(t, NoOptions).res.chunks,
              OptOr(o, "chunkSize", DefaultHybridChunkSize), OptOr(o, "overlap", 0))

-----------------------------------------------------------------------------
(* Recursive hierarchical splitter (recursiveTextSplitter)                 *)

DefaultRecursiveChunkSize == 500

DefaultRecursiveOverlap == 50

defaultSeparators ==
  << <<"\n", "\n">>, <<"\n">>, <<".", " ">>, <<",", " ">>, <<" ">>, <<>> >>

\* the measure chunkingMode selects
SizeOf(mode, s) == IF mode = "characters" THEN Len(s) ELSE countTokens(s)

\* a size test that rejects a text of exactly chunkSize
FitsStrictly(mode, s, chunkSize) ==
  \/ mode = "characters" /\ Len(s) < chunkSize
  \/ mode = "tokens" /\ countTokens(s) < chunkSize

\* (chunkingMode === 'characters' && length <= chunkSize) ||
\* (chunkingMode === 'tokens' && countTokens <= chunkSize)
Fits(mode, s, chunkSize) ==
  \/ mode = "characters" /\ Len(s) <= chunkSize
  \/ mode = "tokens" /\ countTokens(s) <= chunkSize

\* text.split(separator).filter(s => s.trim().length > 0)
segmentsOf(t, separator) ==
  SelectSeq(StringSplit(t, separator), LAMBDA x : Trim(x) # <<>>)

RECURSIVE recursiveSplit(_, _, _, _)
RECURSIVE SplitEach(_, _, _, _, _)
recursiveSplit(mode, t, separators, chunkSize) ==
  IF separators = <<>> \/ Fits(mode, t, chunkSize) THEN <<t>>
  ELSE LET segments == segmentsOf(t, separators[1])
           isSmallEnough == \A k \in 1..Len(segments) : Fits(mode, segments[k], chunkSize)
       IN  IF Len(segments) > 1 /\ isSmallEnough THEN segments
           ELSE SplitEach(mode, segments, Tail(separators), chunkSize, <<>>)

SplitEach(mode, segments, nextSeparators, chunkSize, results) ==
  IF segments = <<>> THEN results
  ELSE SplitEach(mode, Tail(segments), nextSeparators, chunkSize,
         IF Fits(mode, segments[1], chunkSize) THEN Append(results, segments[1])
         ELSE results \o recursiveSplit(mode, segments[1], nextSeparators, chunkSize))

\* (x.endsWith('.') ? ' ' : '. ')
PeriodJoiner(x) == IF EndsWith(x, <<".">>) THEN <<" ">> ELSE <<".", " ">>

RECURSIVE MergeLoop(_, _, _, _, _, _, _)
MergeLoop(mode, chunks, targetSize, i, res, currentChunk, currentSize) ==
  IF i > Len(chunks)
  THEN IF currentChunk # <<>> THEN Append(res, currentChunk) ELSE res
  ELSE LET nextChunk == chunks[i]
           nextSize  == SizeOf(mode, nextChunk)
       IN  IF currentSize + nextSize <= targetSize
           THEN MergeLoop(mode, chunks, targetSize, i + 1, res,
                          currentChunk \o PeriodJoiner(currentChunk) \o nextChunk,
                          currentSize + nextSize)
           ELSE MergeLoop(mode, chunks, targetSize, i + 1,
                          Append(res, currentChunk), nextChunk, nextSize)

mergeSmallChunks(mode, chunks, targetSize) ==
  IF Len(chunks) <= 1 THEN chunks
  ELSE MergeLoop(mode, chunks, targetSize, 2, <<>>, chunks[1], SizeOf(mode, chunks[1]))

overlapTextOf(mode, prevChunk, overlapSize) ==
  IF mode = "characters"
  THEN IF Len(prevChunk) > overlapSize
       THEN JSSubstring(prevChunk, Len(prevChunk) - overlapSize, Len(prevChunk))
       ELSE prevChunk
  ELSE LET prevTokens == tokenize(prevChunk)
       IN  IF Len(prevTokens) > overlapSize
           THEN Join(JSSlice(prevTokens, -overlapSize, Len(prevTokens)), <<" ">>)
           ELSE prevChunk

applyOverlap(mode, chunks, overlapSize) ==
  IF Len(chunks) <= 1 \/ overlapSize <= 0 THEN chunks
  ELSE [i \in 1..Len(chunks) |->
          IF i = 1 THEN chunks[i]
          ELSE LET overlapText == overlapTextOf(mode, chunks[i - 1], overlapSize)
               IN  overlapText \o PeriodJoiner(overlapText) \o chunks[i]]

\* customSeparators as the caller passed it: an array of separators, or a
\* value that is not an array (the type is not checked at run time)
SeparatorList(items) == [isArray |-> TRUE, items |-> items]

NotAnArray == [isArray |-> FALSE, items |-> <<>>]

\* separators.slice(1) throws a TypeError when separators has no slice
\* method; recursiveSplit gets there when the text does not fit chunkSize
recursiveSplitThrows(mode, t, custom, chunkSize) ==
  ~custom.isArray /\ ~Fits(mode, t, chunkSize)

\* the try body of lines 1022-1049
RecursiveTry(t, o) ==
  LET chunkSize  == Opt(o, "chunkSize", DefaultRecursiveChunkSize)
      overlap    == Opt(o, "overlap", DefaultRecursiveOverlap)
      maxChunks  == Opt(o, "maxChunks", 0)
      mode       == Opt(o, "chunkingMode", "characters")
      separators == Opt(o, "customSeparators", SeparatorList(defaultSeparators)).items
      split      == recursiveSplit(mode, t, separators, chunkSize)
      merged     == mergeSmallChunks(mode, split, chunkSize)
      lapped     == IF overlap > 0 THEN applyOverlap(mode, merged, overlap) ELSE merged
      textChunks == Truncate(lapped, maxChunks)
      chunks     == [k \in 1..Len(textChunks) |-> Measured(k - 1, textChunks[k])]
  IN  Outcome(MkResult(chunks, Notes(IF mode = "characters" THEN "recursive-characters" ELSE "recursive-tokens",
                           Len(chunks), chunkSize, overlap)),
              <<>>, 0)

\* catch (error) { return fixedLengthChunking(text, options); }
recursiveTextSplitter(t, o) ==
  IF recursiveSplitThrows(Opt(o, "chunkingMode", "characters"), t,
                          Opt(o, "customSeparators", SeparatorList(defaultSeparators)),
                          Opt(o, "chunkSize", DefaultRecursiveChunkSize))
  THEN fixedLengthChunking(t, o)
  ELSE RecursiveTry(t, o)

-----------------------------------------------------------------------------
(* Semantic chunking (getOpenAIEmbeddings, cosineSimilarity,               *)
(* semanticChunking)                                                       *)

\* The embedding provider answers each request with a vector or fails.  The
\* vectors stand for 1536-component embeddings that are zero outside their
\* first two components; a vector of another length is a malformed answer
\* the code does not detect.
ProviderAnswer(v) == [ok |-> TRUE, v |-> v]

ProviderFailure == [ok |-> FALSE, v |-> <<>>]

\* Array(1536).fill(0)
ZeroVector == <<0, 0>>

\* getOpenAIEmbeddings: a failure is caught and answered by the zero vector
getOpenAIEmbeddings(answer) == IF answer.ok THEN answer.v ELSE ZeroVector

RECURSIVE Dot(_, _)
Dot(a, b) == IF a = <<>> THEN 0 ELSE a[1] * b[1] + Dot(Tail(a), Tail(b))

\* is dot / (sqrt(normA) * sqrt(normB)) > p / q, for q > 0: decided on the
\* squares, so exactly
CosGt(a, b, p, q) ==
  LET d == Dot(a, b)
      n == Dot(a, a) * Dot(b, b)
  IN  IF n = 0 THEN p < 0
      ELSE IF p >= 0 THEN d > 0 /\ q * q * d * d > p * p * n
      ELSE d >= 0 \/ q * q * d * d < p * p * n

\* is cos(a, b) >= p / q
CosGe(a, b, p, q) ==
  LET d == Dot(a, b)
      n == Dot(a, a) * Dot(b, b)
  IN  IF n = 0 THEN p <= 0
      ELSE IF p > 0 THEN d > 0 /\ q * q * d * d >= p * p * n
      ELSE d >= 0 \/ q * q * d * d <= p * p * n

\* is cos(c, x) > cos(c, y)
CosCloser(c, x, y) ==
  LET a == IF Dot(x, x) = 0 THEN 0 ELSE Dot(c, x)
      m == IF Dot(x, x) = 0 THEN 1 ELSE Dot(x, x)
      b == IF Dot(y, y) = 0 THEN 0 ELSE Dot(c, y)
      n == IF Dot(y, y) = 0 THEN 1 ELSE Dot(y, y)
  IN  IF Dot(c, c) = 0 THEN FALSE
      ELSE IF a >= 0 /\ b >= 0 THEN a * a * n > b * b * m
      ELSE IF a >= 0 THEN TRUE
      ELSE IF b >= 0 THEN FALSE
      ELSE a * a * n < b * b * m

\* cosineSimilarity of two paragraph embeddings.  The provider's vectors in
\* the model have norm 0 or 1, so the quotient is the dot product.
cosineSimilarity(vecA, vecB) ==
  IF Dot(vecA, vecA) = 0 \/ Dot(vecB, vecB) = 0 THEN 0 ELSE Dot(vecA, vecB)

\* cosineSimilarity throws 'Vectors must have the same length'
LengthsDiffer(embeddings) ==
  \E i, j \in 1..Len(embeddings) : Len(embeddings[i]) # Len(embeddings[j])

\* sum of similarityMatrix[idx1][idx2] over the pairs of two clusters
\* (clusters hold 0-based paragraph indices)
RECURSIVE PairSum(_, _, _, _)
PairSum(embeddings, cluster1, cluster2, k) ==
  IF k > Len(cluster1) * Len(cluster2) THEN 0
  ELSE LET idx1 == cluster1[((k - 1) \div Len(cluster2)) + 1]
           idx2 == cluster2[((k - 1) % Len(cluster2)) + 1]
       IN  cosineSimilarity(embeddings[idx1 + 1], embeddings[idx2 + 1])
             + PairSum(embeddings, cluster1, cluster2, k + 1)

\* the scan of lines 620-645: best is the pair to merge (-1 while none),
\* num / den the highest average seen (maxSimilarity, initially -1)
RECURSIVE BestPair(_, _, _, _, _, _)
BestPair(embeddings, clusters, i, best, num, den) ==
  IF i >= Len(clusters) THEN best
  ELSE LET total == PairSum(embeddings, clusters[i], clusters[i + 1], 1)
           pairs == Len(clusters[i]) * Len(clusters[i + 1])
       IN  IF total * den > num * pairs
           THEN BestPair(embeddings, clusters, i + 1, i - 1, total, pairs)
           ELSE BestPair(embeddings, clusters, i + 1, best, num, den)

mergeClustersOf(embeddings, clusters) == BestPair(embeddings, clusters, 1, -1, -1, 1)

\* clusters[c1] = [...clusters[c1], ...clusters[c2]]; clusters.splice(c2, 1)
\* a merge that joins cluster c1 with the last cluster instead of its neighbour
MergeWithLast(clusters, c1) ==
  [k \in 1..(Len(clusters) - 1) |->
     IF k = c1 + 1 THEN clusters[k] \o clusters[Len(clusters)] ELSE clusters[k]]

MergeAt(clusters, c1) ==
  [k \in 1..(Len(clusters) - 1) |->
     IF k < c1 + 1 THEN clusters[k]
     ELSE IF k = c1 + 1 THEN clusters[k] \o clusters[k + 1]
     ELSE clusters[k + 1]]

\* three times targetClusters, which is a third of a whole number
TargetTimes3(n, maxChunks) == IF maxChunks > 0 THEN Min(3 * maxChunks, n) ELSE n

\* the while loop of lines 619-655
RECURSIVE Agglomerate(_, _, _)
Agglomerate(embeddings, clusters, target3) ==
  IF ~(3 * Len(clusters) > target3) THEN clusters
  ELSE LET c1 == mergeClustersOf(embeddings, clusters)
       IN  IF c1 >= 0 THEN Agglomerate(embeddings, MergeAt(clusters, c1), target3)
           ELSE clusters

\* cluster.sort((a, b) => a - b)
RECURSIVE SortedInsert(_, _)
SortedInsert(sorted, x) ==
  IF sorted = <<>> THEN <<x>>
  ELSE IF x < sorted[1] THEN <<x>> \o sorted
  ELSE <<sorted[1]>> \o SortedInsert(Tail(sorted), x)

RECURSIVE SortIndices(_)
SortIndices(cluster) ==
  IF cluster = <<>> THEN <<>>
  ELSE SortedInsert(SortIndices(SubSeq(cluster, 1, Len(cluster) - 1)), cluster[Len(cluster)])

MinOf(cluster) == CHOOSE x \in {cluster[k] : k \in 1..Len(cluster)} :
                    \A k \in 1..Len(cluster) : x <= cluster[k]

\* the cluster's embedding, its weights multiplied by the common totalLength
RECURSIVE ClusterEmbedding(_, _, _)
ClusterEmbedding(paragraphs, embeddings, cluster) ==
  IF cluster = <<>> THEN [j \in 1..Len(embeddings[1]) |-> 0]
  ELSE LET rest == ClusterEmbedding(paragraphs, embeddings, Tail(cluster))
           idx  == cluster[1]
       IN  [j \in 1..Len(embeddings[1]) |->
              rest[j] + embeddings[idx + 1][j] * Len(paragraphs[idx + 1])]

RawChunk(paragraphs, embeddings, cluster) ==
  [text |-> Join([k \in 1..Len(cluster) |-> paragraphs[cluster[k] + 1]], <<"\n", "\n">>),
   paragraphIndices |-> cluster,
   embedding |-> ClusterEmbedding(paragraphs, embeddings, cluster)]

\* rawChunks.sort by the smallest paragraph index (stable)
RECURSIVE InsertByMin(_, _)
InsertByMin(sorted, x) ==
  IF sorted = <<>> THEN <<x>>
  ELSE IF MinOf(x.paragraphIndices) < MinOf(sorted[1].paragraphIndices)
       THEN <<x>> \o sorted
  ELSE <<sorted[1]>> \o InsertByMin(Tail(sorted), x)

RECURSIVE SortRawChunks(_, _)
SortRawChunks(raw, acc) ==
  IF raw = <<>> THEN acc ELSE SortRawChunks(Tail(raw), InsertByMin(acc, raw[1]))

\* the other chunk's paragraph indices by similarity to chunkEmbedding,
\* highest first (stable)
RECURSIVE InsertBySimilarity(_, _, _, _)
InsertBySimilarity(sorted, idx, chunkEmbedding, embeddings) ==
  IF sorted = <<>> THEN <<idx>>
  ELSE IF CosCloser(chunkEmbedding, embeddings[idx + 1], embeddings[sorted[1] + 1])
       THEN <<idx>> \o sorted
  ELSE <<sorted[1]>> \o InsertBySimilarity(Tail(sorted), idx, chunkEmbedding, embeddings)

RECURSIVE SortBySimilarity(_, _, _, _)
SortBySimilarity(indices, chunkEmbedding, embeddings, acc) ==
  IF indices = <<>> THEN acc
  ELSE SortBySimilarity(Tail(indices), chunkEmbedding, embeddings,
         InsertBySimilarity(acc, indices[1], chunkEmbedding, embeddings))

\* minimum similarity for overlap: 0.6 = OverlapThresholdNum / OverlapThresholdDen
OverlapThresholdNum == 3

OverlapThresholdDen == 5

\* Math.max(1, Math.round(similarity * (overlap / 100) * count))
paragraphsToIncludeOf(a, b, overlap, count) ==
  LET reached == {k \in 1..(CeilDiv(overlap * count, 100) + 1) :
                    CosGe(a, b, (2 * k - 1) * 100, 2 * overlap * count)}
  IN  IF reached = {} THEN 1
      ELSE CHOOSE k \in reached : \A other \in reached : other <= k

\* the paragraphs of the other chunk that are taken over, joined
SelectedParagraphs(paragraphs, sorted, count) ==
  Join([k \in 1..Len(JSSlice(sorted, 0, count)) |->
          paragraphs[JSSlice(sorted, 0, count)[k] + 1]], <<"\n", "\n">>)

\* chunkText with the overlap chunk j contributes to chunk i
OverlapFrom(paragraphs, chunkEmbedding, otherChunk, overlap, before, chunkText, sorted) ==
  IF before
  THEN SelectedParagraphs(paragraphs, sorted,
         paragraphsToIncludeOf(chunkEmbedding, otherChunk.embedding, overlap, Len(sorted)))
         \o <<"\n", "\n">> \o chunkText
  ELSE chunkText \o <<"\n", "\n">>
         \o SelectedParagraphs(paragraphs, sorted,
              paragraphsToIncludeOf(chunkEmbedding, otherChunk.embedding, overlap,
                                    Len(sorted)))

\* the inner loop over the other chunks j of lines 703-744
RECURSIVE WithOverlap(_, _, _, _, _, _, _)
WithOverlap(paragraphs, embeddings, rawChunks, overlap, i, j, chunkText) ==
  IF j > Len(rawChunks) THEN chunkText
  ELSE IF i = j \/ ~CosGt(rawChunks[i].embedding, rawChunks[j].embedding,
                          OverlapThresholdNum, OverlapThresholdDen)
  THEN WithOverlap(paragraphs, embeddings, rawChunks, overlap, i, j + 1, chunkText)
  ELSE WithOverlap(paragraphs, embeddings, rawChunks, overlap, i, j + 1,
         OverlapFrom(paragraphs, rawChunks[i].embedding, rawChunks[j],
                     overlap, j < i, chunkText,
                     SortBySimilarity(rawChunks[j].paragraphIndices,
                                      rawChunks[i].embedding, embeddings, <<>>)))

\* the clusters as raw chunks, in document order
rawChunksOf(paragraphs, embeddings, clusters) ==
  SortRawChunks([k \in 1..Len(clusters) |->
                   RawChunk(paragraphs, embeddings, SortIndices(clusters[k]))], <<>>)

\* finalChunks: with semantic overlap if asked for, else the raw chunks
finalChunksOf(paragraphs, embeddings, rawChunks, overlap) ==
  IF overlap > 0 /\ Len(rawChunks) > 1
  THEN [i \in 1..Len(rawChunks) |->
          Measured(i - 1, WithOverlap(paragraphs, embeddings, rawChunks, overlap,
                                      i, 1, rawChunks[i].text))]
  ELSE [i \in 1..Len(rawChunks) |-> Measured(i - 1, rawChunks[i].text)]

\* the embedding path, once every request has been answered
embeddingChunks(paragraphs, embeddings, maxChunks, overlap) ==
  finalChunksOf(paragraphs, embeddings,
                rawChunksOf(paragraphs, embeddings,
                            Agglomerate(embeddings,
                                        [k \in 1..Len(paragraphs) |-> <<k - 1>>],
                                        TargetTimes3(Len(paragraphs), maxChunks))),
                overlap)

EmbeddingResult(finalChunks, overlap) ==
  Outcome(MkResult(finalChunks, Notes("semantic-embeddings", Len(finalChunks), overlap, 0)),
          <<>>, 0)

\* cosineSimilarity throws on vectors of different lengths; the catch falls
\* through to the heuristic fallback
EmbeddingPath(t, o, paragraphs, embeddings) ==
  IF LengthsDiffer(embeddings) THEN heuristicSemanticChunking(t, o)
  ELSE EmbeddingResult(embeddingChunks(paragraphs, embeddings, Opt(o, "maxChunks", 0),
                                       Opt(o, "overlap", 0)),
                       Opt(o, "overlap", 0))

SemanticParagraphs(t, o, paragraphs, answers) ==
  IF Len(paragraphs) <= 1 THEN paragraphBasedChunking(t, o)
  ELSE EmbeddingPath(t, o, paragraphs,
                     [k \in 1..Len(paragraphs) |-> getOpenAIEmbeddings(answers[k])])

\* semanticChunking that falls back to paragraph-based chunking instead of
\* the heuristic splitter
semanticWithoutHeuristic(t, o, answers) ==
  IF Opt(o, "apiKey", "") # ""
  THEN SemanticParagraphs(t, o, BlankLineParagraphs(t), answers)
  ELSE paragraphBasedChunking(t, o)

\* answers holds the provider's answer to the request for each paragraph
semanticChunking(t, o, answers) ==
  IF Opt(o, "apiKey", "") # ""
  THEN SemanticParagraphs(t, o, BlankLineParagraphs(t), answers)
  ELSE heuristicSemanticChunking(t, o)

-----------------------------------------------------------------------------
(* Agentic chunking (agenticChunking, calculateVariance)                   *)

\* the number of matches of the sentence pattern in the text
sentenceMatchesOf(t) ==
  Cardinality({q \in 1..(Len(t) - 1) : SentenceSplitAt(t, q) >= 0})
    + (IF SentenceEndAtEof(t) THEN 1 ELSE 0)

CodeKeywords ==
  {<<"f", "u", "n", "c", "t", "i", "o", "n">>, <<"c", "l", "a", "s", "s">>,
   <<"d", "e", "f">>, <<"v", "a", "r">>, <<"c", "o", "n", "s", "t">>,
   <<"l", "e", "t">>, <<"i", "m", "p", "o", "r", "t">>, <<"f", "r", "o", "m">>,
   <<"p", "u", "b", "l", "i", "c">>, <<"p", "r", "i", "v", "a", "t", "e">>}

\* the grave accent, written by code point
Backtick == "u0060"

\* the hasCode pattern: two backticks anywhere (a fenced or inline span), or
\* one of the keywords standing as a word
hasCodeOf(t) ==
  \/ Cardinality({i \in 1..Len(t) : t[i] = Backtick}) >= 2
  \/ \E i \in 0..(Len(t) - 1) : \E w \in CodeKeywords :
       /\ HasAt(t, i, w)
       /\ WordStartsAt(t, i)
       /\ (i + Len(w) = Len(t) \/ t[i + Len(w) + 1] \notin WordChar)

\* ^ under the m flag
LineStartsAt(t, i) == i = 0 \/ (i > 0 /\ t[i] \in {"\n", "\r"})

\* /^\s*[-*+]\s+|\b\d+\.\s+/m
hasListsOf(t) ==
  \/ \E i \in 0..(Len(t) - 1) :
       LET w == WsRunEnd(t, i)
       IN  /\ LineStartsAt(t, i)
           /\ w + 1 < Len(t)
           /\ t[w + 1] \in {"-", "*", "+"}
           /\ IsSpace(t[w + 2])
  \/ \E i \in 0..(Len(t) - 1) :
       LET d == RunEnd(t, i, Digit)
       IN  /\ d > i
           /\ WordStartsAt(t, i)
           /\ d + 1 < Len(t)
           /\ t[d + 1] = "."
           /\ IsSpace(t[d + 2])

\* /^#+\s+/m
hasHeadersOf(t) ==
  \E i \in 0..(Len(t) - 1) :
    LET h == RunEnd(t, i, {"#"})
    IN  LineStartsAt(t, i) /\ h > i /\ h < Len(t) /\ IsSpace(t[h + 1])

RECURSIVE SumLengths(_)
SumLengths(parts) == IF parts = <<>> THEN 0 ELSE Len(parts[1]) + SumLengths(Tail(parts))

RECURSIVE SumSquaredLengths(_)
SumSquaredLengths(parts) ==
  IF parts = <<>> THEN 0
  ELSE Len(parts[1]) * Len(parts[1]) + SumSquaredLengths(Tail(parts))

RECURSIVE MaxLength(_)
MaxLength(parts) == IF parts = <<>> THEN 0 ELSE Max(Len(parts[1]), MaxLength(Tail(parts)))

VarianceThreshold == 10000

LongParagraph == 1000

SmallParagraphTokens == 50

ManyParagraphs == 5

ManySentences == 10

LongSentenceTokens == 20

LongDocumentTokens == 1000

\* calculateVariance(paragraphLengths) > 10000, decided on whole numbers
varianceIsHigh(parts) ==
  LET n == Len(parts)
  IN  n > 0 /\ n * SumSquaredLengths(parts) - SumLengths(parts) * SumLengths(parts)
                 > VarianceThreshold * n * n

\* { ...options, field: value }
SetOpt(o, field, value) ==
  [f \in (DOMAIN o) \cup {field} |-> IF f = field THEN value ELSE o[f]]

\* what the analysis measures
StatsOf(t, paragraphs) ==
  [paragraphCount |-> Len(paragraphs),
   sentenceCount  |-> sentenceMatchesOf(t) + 1,
   tokenCount     |-> countTokens(t),
   varianceHigh   |-> varianceIsHigh(paragraphs),
   maxParagraphLength |-> MaxLength(paragraphs),
   hasCode        |-> hasCodeOf(t),
   structured     |-> hasListsOf(t) \/ hasHeadersOf(t)]

textStatsOf(t) == StatsOf(t, BlankLineParagraphs(t))

\* a selector that tests the document's length before its sentences' length
agenticRuleLengthFirst(stats) ==
  IF stats.hasCode THEN "code"
  ELSE IF stats.paragraphCount <= 1 /\ stats.sentenceCount > ManySentences THEN "sentences"
  ELSE IF stats.varianceHigh /\ stats.maxParagraphLength > LongParagraph THEN "variable"
  ELSE IF /\ (IF stats.paragraphCount > 0
              THEN stats.tokenCount < SmallParagraphTokens * stats.paragraphCount
              ELSE stats.tokenCount < SmallParagraphTokens)
          /\ stats.paragraphCount > ManyParagraphs THEN "small-paragraphs"
  ELSE IF stats.tokenCount > LongDocumentTokens THEN "long-document"
  ELSE IF stats.tokenCount > LongSentenceTokens * stats.sentenceCount THEN "long-sentences"
  ELSE IF stats.structured THEN "structured"
  ELSE "default"

\* the rule agenticChunking takes, first match wins
agenticRuleOf(stats) ==
  IF stats.hasCode THEN "code"
  ELSE IF stats.paragraphCount <= 1 /\ stats.sentenceCount > ManySentences THEN "sentences"
  ELSE IF stats.varianceHigh /\ stats.maxParagraphLength > LongParagraph THEN "variable"
  ELSE IF /\ (IF stats.paragraphCount > 0
              THEN stats.tokenCount < SmallParagraphTokens * stats.paragraphCount
              ELSE stats.tokenCount < SmallParagraphTokens)
          /\ stats.paragraphCount > ManyParagraphs THEN "small-paragraphs"
  ELSE IF stats.tokenCount > LongSentenceTokens * stats.sentenceCount THEN "long-sentences"
  ELSE IF stats.tokenCount > LongDocumentTokens THEN "long-document"
  ELSE IF stats.structured THEN "structured"
  ELSE "default"

\* customOptions as the rule sets them
customOptionsOf(o, rule, stats) ==
  CASE rule = "code" ->
         SetOpt(o, "chunkSize", OptOr(o, "chunkSize", Max(3, Min(5, stats.paragraphCount))))
    [] rule = "sentences" ->
         SetOpt(o, "chunkSize",
                OptOr(o, "chunkSize", Max(3, Min(8, CeilDiv(stats.sentenceCount, 3)))))
    [] rule = "variable" ->
         SetOpt(o, "overlap",
                OptOr(o, "overlap",
                      Min(50, IF Opt(o, "chunkSize", 0) # 0
                              THEN CeilDiv(Opt(o, "chunkSize", 0), 5) ELSE 20)))
    [] rule = "small-paragraphs" ->
         SetOpt(o, "chunkSize",
                OptOr(o, "chunkSize", Max(3, Min(10, CeilDiv(stats.paragraphCount, 3)))))
    [] rule = "long-sentences" ->
         SetOpt(o, "overlap",
                OptOr(o, "overlap",
                      Min(50, IF Opt(o, "chunkSize", 0) # 0
                              THEN CeilDiv(Opt(o, "chunkSize", 0), 4) ELSE 25)))
    [] OTHER -> o

\* the strategy function the branch of the rule calls
agenticStrategyOf(rule) ==
  CASE rule \in {"code", "small-paragraphs", "structured"} -> "paragraph-based"
    [] rule = "sentences" -> "sentence-based"
    [] rule \in {"variable", "long-document"} -> "hybrid"
    [] rule = "long-sentences" -> "sliding-window"
    [] OTHER -> "heuristic"

\* the strategy the rule delegates to
AgenticInner(t, customOptions, rule) ==
  CASE agenticStrategyOf(rule) = "paragraph-based" -> paragraphBasedChunking(t, customOptions)
    [] agenticStrategyOf(rule) = "sentence-based" -> sentenceBasedChunking(t, customOptions)
    [] agenticStrategyOf(rule) = "hybrid" -> hybridChunking(t, customOptions)
    [] agenticStrategyOf(rule) = "sliding-window" -> slidingWindowChunking(t, customOptions)
    [] OTHER -> heuristicSemanticChunking(t, customOptions)

\* result.analysis.notes = `Agentic chunking automatically selected ...`
AgenticNoted(inner, rule, stats) ==
  IF inner.res.status # "ok" THEN inner
  ELSE Outcome([inner.res EXCEPT !.notes =
                  Notes(rule, stats.paragraphCount, stats.sentenceCount,
                        stats.tokenCount)],
               inner.windows, inner.step)

AgenticRuled(t, o, rule, stats) ==
  AgenticNoted(AgenticInner(t, customOptionsOf(o, rule, stats), rule), rule, stats)

AgenticAnalysed(t, o, stats) == AgenticRuled(t, o, agenticRuleOf(stats), stats)

agenticChunking(t, o) == AgenticAnalysed(t, o, textStatsOf(t))

-----------------------------------------------------------------------------
(* The dispatcher (chunkTextAsync) and the requests of the model           *)

Methods ==
  {"fixed-length", "fixed-length-chars", "sentence-based", "paragraph-based",
   "sliding-window", "semantic", "hybrid", "agentic", "recursive"}

\* a method name the switch has no case for
UnknownMethod == "unknown"

\* the two exported chunkTextAsync functions: the one of lib/chunking.ts and
\* the one of components/ui/ApiKeyManager.tsx
EntryPoints == {"lib", "ui"}

\* the case labels of the switch of each chunkTextAsync; the switch of
\* lib/chunking.ts has no case 'recursive'
CasesOf(e) == IF e = "lib" THEN Methods \ {"recursive"} ELSE Methods

\* bounds of the requests
MaxLen == 5

MaxUnits == 3

MaxTokens == 6

MaxWord == 9

MaxChunkSize == 5

MaxOverlap == 2

MaxMaxChunks == 2

MaxLines == 2

MaxParagraphs == 2

\* every string over the alphabet of at most n characters
Strings(alphabet, n) == UNION {[1..k -> alphabet] : k \in 0..n}

\* c repeated n times
Word(c, n) == [k \in 1..n |-> c]

\* k tokens "a" separated by single spaces
TokenText(k) == Join([j \in 1..k |-> <<"a">>], <<" ">>)

\* units separated by separators: units[1] seps[1] units[2] ...
RECURSIVE Phrase(_, _)
Phrase(units, seps) ==
  IF units = <<>> THEN <<>>
  ELSE IF Len(units) = 1 THEN units[1]
  ELSE units[1] \o seps[1] \o Phrase(Tail(units), Tail(seps))

Phrases(unitSet, sepSet, n) ==
  UNION {{Phrase(us, ss) : us \in [1..k -> unitSet], ss \in [1..(k - 1) -> sepSet]} :
           k \in 1..n}

\* one paragraph more than MaxParagraphs, of different lengths: enough for
\* the clustering to have a target of a whole cluster
ClusterText ==
  Join([k \in 1..(MaxParagraphs + 1) |-> Word("a", 1 + (k % 2))], <<"\n", "\n">>)

\* texts with the sites preprocessText protects (a title before a capital,
\* a decimal number) and with the placeholder strings themselves
ProtectedTexts ==
  Phrases({<<"M", "r", ".">>, <<"A", ".">>, <<"1", ".", "5">>, PLACEHOLDER, DECIMAL},
          {<<" ">>}, 2)

\* texts for the strategies that count tokens or characters
TokenTexts ==
  Strings({"a", " "}, MaxLen) \cup {TokenText(k) : k \in 0..MaxTokens}

\* two words around a separator, long enough for several windows of
\* MinCharsChunkSize characters
SnapTexts ==
  {Word("a", w1) \o sep \o Word("a", w2) :
     w1 \in (MaxWord - 3)..MaxWord, w2 \in 0..MaxWord,
     sep \in {<<" ">>, <<".", " ">>, <<"\n">>}}

\* texts of sentences and paragraphs
ProseTexts ==
  Strings({"A", ".", " "}, MaxLen - 1)
    \cup Phrases({<<"A", ".">>, <<"a">>}, {<<" ">>, <<"\n", "\n">>}, MaxUnits)

\* texts with the structure the heuristic fallback and the agentic analysis
\* look for
StructuredTexts ==
  Phrases({<<"a">>, <<"#", " ", "a">>, <<"-", " ", "a">>, <<"1", ".", " ", "a">>,
           <<"-", "-", "-">>, <<"l", "e", "t">>},
          {<<"\n">>, <<"\n", "\n">>}, MaxLines)

\* a section of SmallChunkTokens tokens and more under a header, which the
\* heuristic merge leaves alone, after short sections it also keeps
SectionTexts ==
  {short \o sep \o <<"#", " ">> \o TokenText(SmallChunkTokens) \o <<"\n", "a">> \o last :
     short \in Phrases({<<"a", "\n", "a">>, <<"#", " ", "a", "\n", "a">>},
                       {<<"\n">>, <<"\n", "\n">>}, MaxLines - 1),
     sep \in {<<"\n">>, <<"\n", "\n">>},
     last \in {<<>>, <<"\n", "#", " ", "a", "\n", "a">>}}

SizeOptions(sizes, overlaps) ==
  {[chunkSize |-> c, overlap |-> v] : c \in sizes, v \in overlaps}

CappedOptions(sizes, overlaps, caps) ==
  {[chunkSize |-> c, overlap |-> v, maxChunks |-> m] :
     c \in sizes, v \in overlaps, m \in caps}

WithOption(options, field, values) ==
  {SetOpt(o, field, v) : o \in options, v \in values}

\* the provider's answers: unit vectors, a malformed answer, a failure
Answers ==
  {ProviderAnswer(<<1, 0>>), ProviderAnswer(<<0, 1>>), ProviderAnswer(<<-1, 0>>),
   ProviderAnswer(<<1>>), ProviderFailure}

NoAnswers == <<>>

Request(t, o, answers) == [text |-> t, opts |-> o, env |-> answers]

Plain(texts, options) == {Request(t, o, NoAnswers) : t \in texts, o \in options}

\* one answer for each paragraph the embedding path asks about
Embedded(texts, options) ==
  UNION {{Request(t, o, answers) :
            answers \in [1..Len(BlankLineParagraphs(t)) -> Answers], o \in options} :
           t \in texts}

TokenSizes == (1..MaxChunkSize) \cup {CharModeThreshold + 1}

TokenOverlaps == (0..MaxOverlap) \cup {CharModeThreshold + 1}

GroupOptions == CappedOptions(1..MaxUnits, 0..MaxOverlap, 0..MaxMaxChunks)

\* texts of more units than WindowMaxChunks under a step of 1: in tokens
\* with the largest chunk size of the token path, in characters with the
\* smallest of the character path
LongWindowRequests ==
  Plain({TokenText(WindowMaxChunks + 1)},
        SizeOptions({CharModeThreshold}, {CharModeThreshold - 1, CharModeThreshold}))
    \cup Plain({Word("a", WindowMaxChunks + 1)},
               SizeOptions({CharModeThreshold + 1},
                           {CharModeThreshold, CharModeThreshold + 1}))

RequestsOf(m) ==
  CASE m = "fixed-length" ->
         Plain(TokenTexts,
               {NoOptions} \cup SizeOptions(TokenSizes, TokenOverlaps)
                 \cup WithOption(SizeOptions(TokenSizes, TokenOverlaps), "chunkingMode",
                                 {"tokens", "characters"}))
    [] m = "sliding-window" ->
         Plain(TokenTexts,
               {NoOptions} \cup SizeOptions(TokenSizes, TokenOverlaps))
           \cup LongWindowRequests
    [] m = "fixed-length-chars" ->
         Plain(SnapTexts,
               {NoOptions}
                 \cup CappedOptions({-1, 1, MinCharsChunkSize, MinCharsChunkSize + 1},
                                    (-1..MaxOverlap) \cup {MinCharsChunkSize,
                                                           MinCharsChunkSize + 1},
                                    0..MaxMaxChunks)
                 \cup WithOption(CappedOptions({MinCharsChunkSize}, {0, 1}, {0}),
                                 "separator", {<<"|">>, <<" ">>}))
    [] m = "sentence-based" ->
         Plain(ProseTexts, {NoOptions} \cup GroupOptions)
           \cup Plain(ProtectedTexts, {NoOptions, [chunkSize |-> 1]})
    [] m = "paragraph-based" ->
         Plain(ProseTexts \cup StructuredTexts,
               {NoOptions} \cup CappedOptions(0..MaxUnits, 0..MaxOverlap, 0..MaxMaxChunks))
    [] m = "hybrid" ->
         Plain(ProseTexts, {NoOptions} \cup SizeOptions(0..MaxChunkSize, 0..MaxOverlap))
    [] m = "semantic" ->
         Plain(StructuredTexts \cup SectionTexts,
               {NoOptions} \cup {[maxChunks |-> c] : c \in 0..MaxMaxChunks})
           \cup Embedded(Phrases({<<"a">>, <<"a", "a">>}, {<<"\n", "\n">>}, MaxParagraphs),
                         {[apiKey |-> "key", maxChunks |-> c, overlap |-> v] :
                            c \in 0..MaxMaxChunks, v \in {0, 100}}
                           \cup {[apiKey |-> "", maxChunks |-> c] :
                                   c \in 0..MaxMaxChunks})
           \cup Embedded({ClusterText},
                         {[apiKey |-> "key", maxChunks |-> c, overlap |-> 0] :
                            c \in 0..MaxMaxChunks})
    [] m = "agentic" ->
         Plain(StructuredTexts \cup ProseTexts,
               {NoOptions} \cup SizeOptions(0..1, 0..1))
    [] m = "recursive" ->
         Plain(ProseTexts,
               {NoOptions} \cup GroupOptions
                 \cup WithOption(GroupOptions, "chunkingMode", {"tokens"})
                 \cup WithOption(SizeOptions(1..MaxUnits, 0..MaxOverlap),
                                 "customSeparators",
                                 {NotAnArray, SeparatorList(<<<<" ">>>>)}))
    [] OTHER -> Plain({<<"a">>}, {NoOptions})

\* nothing has been returned yet
Pending ==
  [status |-> "pending", chunks |-> <<>>, totalChunks |-> 0, avgTokens |-> 0,
   avgCharacters |-> 0, notes |-> [kind |-> "none", a |-> 0, b |-> 0, c |-> 0]]

\* the page before any chunk is finalized
QueryIdle ==
  /\ isQuerying = FALSE
  /\ isGeneratingAnswer = FALSE
  /\ gptAnswer = ""
  /\ queryPc = "idle"
  /\ queryChunks = <<>>

RagIdle ==
  /\ QueryIdle
  /\ chunksWithEmbeddings = <<>>
  /\ isRagEnabled = FALSE
  /\ finalizedChunks = <<>>
  /\ apiKey = ""
  /\ provider = <<>>
  /\ ragPc = "idle"
  /\ batchStart = 0
  /\ inflight = {}
  /\ overtaken = FALSE
  /\ batchResults = <<>>
  /\ errorLog = {}
  /\ ragError = ""
  /\ embeddingsGenerated = FALSE
  /\ query = [embedding |-> <<>>, topK |-> 0]
  /\ queryResults = <<>>

\* no document has been analysed on its statistics alone
SelectorIdle ==
  /\ docStats = [paragraphCount |-> 0, sentenceCount |-> 1, tokenCount |-> 0,
                 varianceHigh |-> FALSE, maxParagraphLength |-> 0,
                 hasCode |-> FALSE, structured |-> FALSE]
  /\ selected = [rule |-> "none", strategy |-> "none"]

Init ==
  /\ RagIdle
  /\ SelectorIdle
  /\ entry \in EntryPoints
  /\ method \in Methods \cup {UnknownMethod}
  /\ \E r \in RequestsOf(method) :
       /\ text = r.text
       /\ opts = r.opts
       /\ env = r.env
  /\ pc = "start"
  /\ result = Pending
  /\ windows = <<>>
  /\ step = 0

\* the dispatcher hands back what the strategy returned
Return(out) ==
  /\ result' = out.res
  /\ windows' = out.windows
  /\ step' = out.step
  /\ pc' = "done"
  /\ UNCHANGED <<entry, text, method, opts, env>>
  /\ UNCHANGED <<ragVars, selectorVars>>

FixedLength ==
  /\ pc = "start"
  /\ method = "fixed-length"
  /\ Return(fixedLengthChunking(text, opts))

FixedLengthChars ==
  /\ pc = "start"
  /\ method = "fixed-length-chars"
  /\ Return(fixedLengthCharsChunking(text, opts))

SentenceBased ==
  /\ pc = "start"
  /\ method = "sentence-based"
  /\ Return(sentenceBasedChunking(text, opts))

ParagraphBased ==
  /\ pc = "start"
  /\ method = "paragraph-based"
  /\ Return(paragraphBasedChunking(text, opts))

SlidingWindow ==
  /\ pc = "start"
  /\ method = "sliding-window"
  /\ Return(slidingWindowChunking(text, opts))

Semantic ==
  /\ pc = "start"
  /\ method = "semantic"
  /\ Return(semanticChunking(text, opts, env))

Hybrid ==
  /\ pc = "start"
  /\ method = "hybrid"
  /\ Return(hybridChunking(text, opts))

Agentic ==
  /\ pc = "start"
  /\ method = "agentic"
  /\ Return(agenticChunking(text, opts))

Recursive ==
  /\ pc = "start"
  /\ entry = "ui"
  /\ method = "recursive"
  /\ Return(recursiveTextSplitter(text, opts))

\* default: throw new Error(`Unsupported chunking method: ${method}`)
Unsupported ==
  /\ pc = "start"
  /\ method \notin CasesOf(entry)
  /\ Return(Outcome(Thrown("unsupported-method"), <<>>, 0))

Next ==
  \/ FixedLength
  \/ FixedLengthChars
  \/ SentenceBased
  \/ ParagraphBased
  \/ SlidingWindow
  \/ Semantic
  \/ Hybrid
  \/ Agentic
  \/ Recursive
  \/ Unsupported

Spec == Init /\ [][Next]_vars

-----------------------------------------------------------------------------
(* The embedding pass and the retrieval ranker (app/home/page.tsx)         *)

\* const batchSize = 15
batchSize == 15

\* topK = 5
DefaultTopK == 5

\* bounds of the chunk lists: short lists with every combination of
\* answers, and one list that needs a second batch
MaxList == 3

ListLengths == (0..MaxList) \cup {batchSize + 1}

TopKs == {0, 1, 2, DefaultTopK}

\* a chunk without the optional embedding property
NoEmbedding == <<>>

\* interface Chunk { id, text, tokens, characters, embedding? }
Embeddable(chunk, embedding) ==
  [id |-> chunk.id, text |-> chunk.text, tokens |-> chunk.tokens,
   characters |-> chunk.characters, embedding |-> embedding]

\* setFinalizedChunks([...chunks]) for a chunking result of n chunks
FinalizedList(n) ==
  [k \in 1..n |-> Embeddable(Measured(k - 1, Word("a", 1 + (k % 2))), NoEmbedding)]

\* the embeddings the provider can answer with (the query's as well)
Vectors == {<<1, 0>>, <<0, 1>>, <<1, 1>>, <<-1, 0>>, <<0, 0>>}

RagAnswers == {ProviderAnswer(v) : v \in Vectors} \cup {ProviderFailure}

\* the answers for a long list: the requests of the chunks in failing fail
LongAnswers(n, failing) ==
  [k \in 1..n |-> IF k - 1 \in failing THEN ProviderFailure
                  ELSE ProviderAnswer(IF k % 2 = 0 THEN <<1, 0>> ELSE <<1, 1>>)]

\* provider[k + 1] is the answer to the request made with chunk k's text
Providers(n) ==
  IF n <= MaxList THEN [1..n -> RagAnswers]
  ELSE {LongAnswers(n, failing) : failing \in {{}, {0}, {n - 1}}}

\* the chunking result has been finalized; its chunks are finalizedChunks
ChunkingFinalized ==
  /\ entry = "lib"
  /\ text = <<>>
  /\ method = "fixed-length"
  /\ opts = NoOptions
  /\ env = NoAnswers
  /\ pc = "finalized"
  /\ result = Pending
  /\ windows = <<>>
  /\ step = 0

RagInit ==
  /\ ChunkingFinalized
  /\ SelectorIdle
  /\ \E n \in ListLengths :
       /\ finalizedChunks = FinalizedList(n)
       /\ provider \in Providers(n)
       /\ apiKey \in (IF n <= 1 THEN {"", "key"} ELSE {"key"})
       /\ isRagEnabled = (n > 0)
  /\ QueryIdle
  /\ chunksWithEmbeddings = <<>>
  /\ ragPc = "idle"
  /\ batchStart = 0
  /\ inflight = {}
  /\ overtaken = FALSE
  /\ batchResults = <<>>
  /\ errorLog = {}
  /\ ragError = ""
  /\ embeddingsGenerated = FALSE
  /\ query = [embedding |-> <<>>, topK |-> 0]
  /\ queryResults = <<>>

\* the early returns of generateEmbeddings (lines 379-387)
GenerateRefused ==
  /\ ragPc = "idle"
  /\ Len(finalizedChunks) = 0 \/ apiKey = ""
  /\ ragError' = IF Len(finalizedChunks) = 0
                 THEN "No finalized chunks to generate embeddings for"
                 ELSE "OpenAI API key is required for generating embeddings"
  /\ ragPc' = "refused"
  /\ UNCHANGED <<finalizedChunks, apiKey, provider, batchStart, inflight, overtaken,
                 batchResults, errorLog, embeddingsGenerated, query, queryResults>>
  /\ UNCHANGED <<chunksWithEmbeddings, isRagEnabled, queryVars>>
  /\ UNCHANGED <<chunkingVars, selectorVars>>

\* the slot of Promise.all that no request has settled yet
Unsettled == [index |-> -1, ok |-> FALSE, embedding |-> NoEmbedding, error |-> "pending"]

\* chunksWithEmbeddings.slice(i, i + batchSize), as chunk indices
BatchIndexes(i, n) == i..(Min(i + batchSize, n) - 1)

\* batch.map(async (chunk, batchIndex) => ...): one request for each chunk
IssueBatch(i, n) ==
  /\ batchStart' = i
  /\ inflight' = BatchIndexes(i, n)
  /\ batchResults' = [j \in 1..Cardinality(BatchIndexes(i, n)) |-> Unsettled]

\* generateEmbeddings up to the first await Promise.all
GenerateEmbeddings ==
  /\ ragPc = "idle"
  /\ Len(finalizedChunks) > 0
  /\ apiKey # ""
  /\ ragError' = ""
  /\ ragPc' = "batch"
  /\ chunksWithEmbeddings' = finalizedChunks
  /\ IssueBatch(0, Len(finalizedChunks))
  /\ UNCHANGED <<finalizedChunks, apiKey, provider, overtaken, errorLog,
                 embeddingsGenerated, query, queryResults>>
  /\ UNCHANGED <<isRagEnabled, queryVars>>
  /\ UNCHANGED <<chunkingVars, selectorVars>>

\* the index a pass would use if it matched results by completion order
arrivalIndexOf(i, batchIndex, arrival) == i + arrival

\* const chunkIndex = i + batchIndex, fixed when the request is issued;
\* arrival is the number of requests of the batch that settled earlier
chunkIndexOf(i, batchIndex, arrival) == i + batchIndex

\* what the promise of a request resolves to (lines 425-438)
requestResult(chunkIndex, answer) ==
  IF answer.ok
  THEN [index |-> chunkIndex, ok |-> TRUE, embedding |-> answer.v, error |-> ""]
  ELSE [index |-> chunkIndex, ok |-> FALSE, embedding |-> NoEmbedding,
        error |-> "OpenAI API error"]

\* the request made for chunk k settles, in any order among those in flight
RequestSettles(k) ==
  /\ ragPc = "batch"
  /\ k \in inflight
  /\ LET arrival    == Cardinality(BatchIndexes(batchStart, Len(chunksWithEmbeddings)))
                         - Cardinality(inflight)
         chunkIndex == chunkIndexOf(batchStart, k - batchStart, arrival)
     IN  /\ batchResults' = [batchResults EXCEPT ![k - batchStart + 1] =
                               requestResult(chunkIndex, provider[k + 1])]
         /\ errorLog' = IF provider[k + 1].ok THEN errorLog
                        ELSE errorLog \cup {[index |-> chunkIndex, error |-> "OpenAI API error"]}
  /\ inflight' = inflight \ {k}
  /\ overtaken' = (overtaken \/ \E j \in inflight : j < k)
  /\ UNCHANGED <<finalizedChunks, apiKey, provider, ragPc, batchStart, ragError,
                 embeddingsGenerated, query, queryResults>>
  /\ UNCHANGED <<chunksWithEmbeddings, isRagEnabled, queryVars>>
  /\ UNCHANGED <<chunkingVars, selectorVars>>

\* a pass that stops storing results at the first failed request
RECURSIVE AssignUntilFailure(_, _)
AssignUntilFailure(chunks, results) ==
  IF results = <<>> \/ ~results[1].ok THEN chunks
  ELSE AssignUntilFailure([chunks EXCEPT ![results[1].index + 1].embedding =
                                          results[1].embedding],
                          Tail(results))

\* batchResults.forEach: a result with an embedding is stored at its index
RECURSIVE AssignEmbeddings(_, _)
AssignEmbeddings(chunks, results) ==
  IF results = <<>> THEN chunks
  ELSE AssignEmbeddings(IF results[1].ok
                        THEN [chunks EXCEPT ![results[1].index + 1].embedding =
                                              results[1].embedding]
                        ELSE chunks,
                        Tail(results))

\* Promise.all resolved: the results are stored in the copy, then the next
\* batch is issued or the pass ends with setFinalizedChunks(chunksWithEmbeddings)
\* and setEmbeddingsGenerated(true) (lines 440-455)
StoreBatch ==
  /\ ragPc = "batch"
  /\ chunksWithEmbeddings' = AssignEmbeddings(chunksWithEmbeddings, batchResults)
  /\ IF batchStart + batchSize < Len(chunksWithEmbeddings)
     THEN /\ IssueBatch(batchStart + batchSize, Len(chunksWithEmbeddings))
          /\ UNCHANGED <<ragPc, embeddingsGenerated, finalizedChunks>>
     ELSE /\ ragPc' = "done"
          /\ finalizedChunks' = chunksWithEmbeddings'
          /\ embeddingsGenerated' = TRUE
          /\ UNCHANGED <<batchStart, inflight, batchResults>>
  /\ UNCHANGED <<apiKey, provider, overtaken, errorLog, ragError, query, queryResults>>
  /\ UNCHANGED <<isRagEnabled, queryVars>>
  /\ UNCHANGED <<chunkingVars, selectorVars>>

\* a pass that goes on while one request of the batch is still pending
BatchSettledEarly == Cardinality(inflight) <= 1 /\ StoreBatch

\* await Promise.all(batchPromises): every request of the batch has settled
BatchSettled == inflight = {} /\ StoreBatch

\* calculateCosineSimilarity: dotProduct / (magnitudeA * magnitudeB), kept
\* exact as the dot product and the two squared magnitudes
calculateCosineSimilarity(vecA, vecB) ==
  [dot |-> Dot(vecA, vecB), sqA |-> Dot(vecA, vecA), sqB |-> Dot(vecB, vecB)]

\* 0 / 0: one of the vectors has magnitude 0
IsNaN(score) == score.sqA * score.sqB = 0

\* s > t as numbers; a comparison with NaN is false
ScoreGt(s, t) ==
  LET ns == s.sqA * s.sqB
      nt == t.sqA * t.sqB
  IN  /\ ~IsNaN(s)
      /\ ~IsNaN(t)
      /\ IF s.dot >= 0 /\ t.dot >= 0 THEN s.dot * s.dot * nt > t.dot * t.dot * ns
         ELSE IF s.dot >= 0 THEN TRUE
         ELSE IF t.dot >= 0 THEN FALSE
         ELSE s.dot * s.dot * nt < t.dot * t.dot * ns

\* chunks.filter((chunk) => chunk.embedding).map(...)
similaritiesOf(queryEmbedding, chunks) ==
  LET embedded == SelectSeq(chunks, LAMBDA c : c.embedding # NoEmbedding)
  IN  [k \in 1..Len(embedded) |->
         [chunkId |-> embedded[k].id, text |-> embedded[k].text,
          score |-> calculateCosineSimilarity(queryEmbedding, embedded[k].embedding)]]

\* (a, b) => b.score - a.score; sort reads a NaN result as 0
compareScores(a, b) ==
  IF ScoreGt(b.score, a.score) THEN 1
  ELSE IF ScoreGt(a.score, b.score) THEN -1
  ELSE 0

\* the comparator orders the entries consistently: being equal is transitive
ConsistentComparator(entries) ==
  \A i, j, k \in 1..Len(entries) :
    compareScores(entries[i], entries[j]) = 0 /\ compareScores(entries[j], entries[k]) = 0
      => compareScores(entries[i], entries[k]) = 0

\* e is put behind every entry that does not sort after it
RECURSIVE InsertSorted(_, _)
InsertSorted(sorted, e) ==
  IF sorted = <<>> THEN <<e>>
  ELSE IF compareScores(sorted[1], e) > 0 THEN <<e>> \o sorted
  ELSE <<sorted[1]>> \o InsertSorted(Tail(sorted), e)

\* the stable sort of the entries
RECURSIVE StableSort(_, _)
StableSort(entries, n) ==
  IF n = 0 THEN <<>> ELSE InsertSorted(StableSort(entries, n - 1), entries[n])

Permuted(entries) ==
  {[k \in 1..Len(entries) |-> entries[p[k]]] :
     p \in {f \in [1..Len(entries) -> 1..Len(entries)] :
              \A i, j \in 1..Len(entries) : f[i] = f[j] => i = j}}

\* Array.prototype.sort: the stable order for a consistent comparator, an
\* order the engine chooses for an inconsistent one
SortOutcomes(entries) ==
  IF ConsistentComparator(entries) THEN {StableSort(entries, Len(entries))}
  ELSE Permuted(entries)

\* findSimilarChunks(queryEmbedding, chunks, topK) on the chunks of the page
FindSimilarChunks ==
  /\ ragPc = "done"
  /\ \E queryEmbedding \in Vectors, topK \in TopKs :
       /\ query' = [embedding |-> queryEmbedding, topK |-> topK]
       /\ \E sorted \in SortOutcomes(similaritiesOf(queryEmbedding, finalizedChunks)) :
            queryResults' = SubSeq(sorted, 1, Min(topK, Len(sorted)))
  /\ ragPc' = "queried"
  /\ UNCHANGED <<finalizedChunks, apiKey, provider, batchStart, inflight, overtaken,
                 batchResults, errorLog, ragError, embeddingsGenerated>>
  /\ UNCHANGED <<chunksWithEmbeddings, isRagEnabled, queryVars>>
  /\ UNCHANGED <<chunkingVars, selectorVars>>

SomeRequestSettles == \E k \in inflight : RequestSettles(k)

RagNext ==
  \/ GenerateRefused
  \/ GenerateEmbeddings
  \/ SomeRequestSettles
  \/ BatchSettled
  \/ FindSimilarChunks

RagSpec == RagInit /\ [][RagNext]_vars

-----------------------------------------------------------------------------
(* The retrieval page: finalizeChunks, resetRag and performQuery next to   *)
(* a running embedding pass (app/home/page.tsx)                            *)

\* bound of the chunk lists of the page
MaxPageList == 2

\* one embedding and the failure are enough for the chunks of the page
PageAnswers == {ProviderAnswer(<<1, 0>>), ProviderFailure}

\* the provider's answers to the request made with the query
QueryAnswers == {ProviderAnswer(<<1, 0>>), ProviderAnswer(<<0, 1>>), ProviderFailure}

\* what the user typed into the query field
QueryInputs == {<<>>, <<" ">>, <<"q">>}

\* the chat completion: a message, or a response that is not ok
ChatAnswers == {[ok |-> TRUE, content |-> "answer"], [ok |-> FALSE, content |-> ""]}

\* the chunks of the page, which finalizeChunks copies
chunksOfPage == FinalizedList(Len(provider))

PageInit ==
  /\ ChunkingFinalized
  /\ SelectorIdle
  /\ \E n \in 0..MaxPageList :
       /\ finalizedChunks = FinalizedList(n)
       /\ provider \in [1..n -> PageAnswers]
       /\ isRagEnabled = (n > 0)
  /\ apiKey = "key"
  /\ QueryIdle
  /\ chunksWithEmbeddings = <<>>
  /\ ragPc = "idle"
  /\ batchStart = 0
  /\ inflight = {}
  /\ overtaken = FALSE
  /\ batchResults = <<>>
  /\ errorLog = {}
  /\ ragError = ""
  /\ embeddingsGenerated = FALSE
  /\ query = [embedding |-> <<>>, topK |-> 0]
  /\ queryResults = <<>>

\* finalizeChunks (lines 349-363)
FinalizeChunks ==
  /\ IF Len(chunksOfPage) = 0
     THEN /\ ragError' = "No chunks to finalize"
          /\ UNCHANGED <<finalizedChunks, isRagEnabled>>
     ELSE IF apiKey = ""
     THEN /\ ragError' = "OpenAI API key is required for RAG functionality"
          /\ UNCHANGED <<finalizedChunks, isRagEnabled>>
     ELSE /\ finalizedChunks' = chunksOfPage
          /\ isRagEnabled' = TRUE
          /\ UNCHANGED ragError
  /\ UNCHANGED <<apiKey, provider, ragPc, batchStart, inflight, overtaken, batchResults,
                 errorLog, embeddingsGenerated, query, queryResults, chunksWithEmbeddings>>
  /\ UNCHANGED queryVars
  /\ UNCHANGED <<chunkingVars, selectorVars>>

\* resetRag (lines 366-374)
ResetRag ==
  /\ isRagEnabled' = FALSE
  /\ embeddingsGenerated' = FALSE
  /\ finalizedChunks' = <<>>
  /\ queryResults' = <<>>
  /\ UNCHANGED <<apiKey, provider, ragPc, batchStart, inflight, overtaken, batchResults,
                 errorLog, ragError, query, chunksWithEmbeddings>>
  /\ UNCHANGED queryVars
  /\ UNCHANGED <<chunkingVars, selectorVars>>

\* no performQuery is between its first line and its finally block
QueryAtRest == queryPc \notin {"embedding", "chat"}

\* the early returns of performQuery (lines 501-514)
PerformQueryRefused ==
  /\ QueryAtRest
  /\ \E queryInput \in QueryInputs :
       \/ /\ Trim(queryInput) = <<>>
          /\ ragError' = "Please enter a query"
       \/ /\ Trim(queryInput) # <<>>
          /\ ~embeddingsGenerated \/ Len(finalizedChunks) = 0
          /\ ragError' = "Please generate embeddings first"
       \/ /\ Trim(queryInput) # <<>>
          /\ embeddingsGenerated /\ Len(finalizedChunks) # 0
          /\ apiKey = ""
          /\ ragError' = "OpenAI API key is required for querying"
  /\ queryPc' = "refused"
  /\ UNCHANGED <<isQuerying, isGeneratingAnswer, gptAnswer, queryChunks>>
  /\ UNCHANGED <<finalizedChunks, apiKey, provider, ragPc, batchStart, inflight, overtaken,
                 batchResults, errorLog, embeddingsGenerated, query, queryResults,
                 chunksWithEmbeddings, isRagEnabled>>
  /\ UNCHANGED <<chunkingVars, selectorVars>>

\* performQuery up to the await of the embedding request (lines 516-530)
PerformQuery ==
  /\ QueryAtRest
  /\ \E queryInput \in QueryInputs : Trim(queryInput) # <<>>
  /\ embeddingsGenerated
  /\ Len(finalizedChunks) # 0
  /\ apiKey # ""
  /\ isQuerying' = TRUE
  /\ gptAnswer' = ""
  /\ ragError' = ""
  /\ queryChunks' = finalizedChunks
  /\ queryPc' = "embedding"
  /\ UNCHANGED isGeneratingAnswer
  /\ UNCHANGED <<finalizedChunks, apiKey, provider, ragPc, batchStart, inflight, overtaken,
                 batchResults, errorLog, embeddingsGenerated, query, queryResults,
                 chunksWithEmbeddings, isRagEnabled>>
  /\ UNCHANGED <<chunkingVars, selectorVars>>

\* a performQuery without its finally block
QueryFinallyMissing == UNCHANGED <<isQuerying, isGeneratingAnswer>>

\* finally { setIsQuerying(false); setIsGeneratingAnswer(false); }
QueryFinally ==
  /\ isQuerying' = FALSE
  /\ isGeneratingAnswer' = FALSE

\* findSimilarChunks(queryEmbedding, chunks, topK): the lists sort can leave
similarChunksOf(queryEmbedding, chunks, topK) ==
  {SubSeq(sorted, 1, Min(topK, Len(sorted))) :
     sorted \in SortOutcomes(similaritiesOf(queryEmbedding, chunks))}

\* the embedding request of the query fails: the throw of line 533, the
\* catch and the finally block
QueryEmbeddingFails ==
  /\ queryPc = "embedding"
  /\ \E answer \in QueryAnswers : ~answer.ok
  /\ ragError' = "Error performing query: OpenAI API error"
  /\ QueryFinally
  /\ queryPc' = "embedding-failed"
  /\ UNCHANGED <<gptAnswer, queryChunks>>
  /\ UNCHANGED <<finalizedChunks, apiKey, provider, ragPc, batchStart, inflight, overtaken,
                 batchResults, errorLog, embeddingsGenerated, query, queryResults,
                 chunksWithEmbeddings, isRagEnabled>>
  /\ UNCHANGED <<chunkingVars, selectorVars>>

\* the embedding of the query arrives: the chunks are ranked, and the
\* function returns when there are none or goes on to the chat request
\* (lines 536-549)
QueryEmbeddingAnswered ==
  /\ queryPc = "embedding"
  /\ \E answer \in QueryAnswers :
       /\ answer.ok
       /\ query' = [embedding |-> answer.v, topK |-> DefaultTopK]
       /\ queryResults' \in similarChunksOf(answer.v, queryChunks, DefaultTopK)
  /\ IF Len(queryResults') = 0
     THEN /\ ragError' = "No relevant chunks found for your query"
          /\ QueryFinally
          /\ queryPc' = "no-chunks"
     ELSE /\ isGeneratingAnswer' = TRUE
          /\ queryPc' = "chat"
          /\ UNCHANGED <<ragError, isQuerying>>
  /\ UNCHANGED <<gptAnswer, queryChunks>>
  /\ UNCHANGED <<finalizedChunks, apiKey, provider, ragPc, batchStart, inflight, overtaken,
                 batchResults, errorLog, embeddingsGenerated, chunksWithEmbeddings,
                 isRagEnabled>>
  /\ UNCHANGED <<chunkingVars, selectorVars>>

\* the chat request settles: the answer is shown or the error is, and the
\* finally block runs (lines 581-597)
ChatSettles ==
  /\ queryPc = "chat"
  /\ \E answer \in ChatAnswers :
       IF answer.ok
       THEN /\ gptAnswer' = answer.content
            /\ queryPc' = "answered"
            /\ UNCHANGED ragError
       ELSE /\ ragError' = "Error performing query: OpenAI API error"
            /\ queryPc' = "chat-failed"
            /\ UNCHANGED gptAnswer
  /\ QueryFinally
  /\ UNCHANGED queryChunks
  /\ UNCHANGED <<finalizedChunks, apiKey, provider, ragPc, batchStart, inflight, overtaken,
                 batchResults, errorLog, embeddingsGenerated, query, queryResults,
                 chunksWithEmbeddings, isRagEnabled>>
  /\ UNCHANGED <<chunkingVars, selectorVars>>

PageNext ==
  \/ FinalizeChunks
  \/ ResetRag
  \/ GenerateRefused
  \/ GenerateEmbeddings
  \/ SomeRequestSettles
  \/ BatchSettled
  \/ PerformQueryRefused
  \/ PerformQuery
  \/ QueryEmbeddingFails
  \/ QueryEmbeddingAnswered
  \/ ChatSettles

PageSpec == PageInit /\ [][PageNext]_vars

-----------------------------------------------------------------------------
(* The agentic selector on the statistics of a document                    *)

\* statistics on both sides of every threshold of the rules
ParagraphCounts == {0, 1, 2, ManyParagraphs, ManyParagraphs + 1}

SentenceCounts == {1, ManySentences, ManySentences + 1}

TokenCounts ==
  {0, LongSentenceTokens, LongSentenceTokens + 1,
   LongSentenceTokens * (ManySentences + 1), LongSentenceTokens * (ManySentences + 1) + 1,
   SmallParagraphTokens * (ManyParagraphs + 1) - 1, SmallParagraphTokens * (ManyParagraphs + 1),
   LongDocumentTokens, LongDocumentTokens + 1}

ParagraphLengths == {0, LongParagraph, LongParagraph + 1}

\* what a text can measure: no paragraph means only white space, the
\* variance needs two paragraphs, and every sentence break follows a token
FeasibleStats(st) ==
  /\ (st.paragraphCount = 0) = (st.maxParagraphLength = 0)
  /\ st.paragraphCount = 0 => st.tokenCount = 0
  /\ st.varianceHigh => st.paragraphCount >= 2
  /\ st.sentenceCount <= st.tokenCount + 1
  /\ st.hasCode \/ st.structured => st.tokenCount >= 1

DocumentStats ==
  {st \in [paragraphCount : ParagraphCounts, sentenceCount : SentenceCounts,
           tokenCount : TokenCounts, varianceHigh : BOOLEAN,
           maxParagraphLength : ParagraphLengths, hasCode : BOOLEAN,
           structured : BOOLEAN] : FeasibleStats(st)}

SelectorInit ==
  /\ ChunkingFinalized
  /\ RagIdle
  /\ docStats \in DocumentStats
  /\ selected = [rule |-> "none", strategy |-> "none"]

\* the if / else-if chain of agenticChunking on the statistics
SelectStrategy ==
  /\ selected.rule = "none"
  /\ selected' = [rule |-> agenticRuleOf(docStats),
                  strategy |-> agenticStrategyOf(agenticRuleOf(docStats))]
  /\ UNCHANGED <<docStats, chunkingVars, ragVars>>

SelectorNext == SelectStrategy

SelectorSpec == SelectorInit /\ [][SelectorNext]_vars

-----------------------------------------------------------------------------
(* Properties of the results                                               *)

\* the strategy returned a result
Returned == pc = "done" /\ result.status = "ok"

Includes(s, pat) == \E i \in 0..(Len(s) - Len(pat)) : HasAt(s, i, pat)

\* every unit 0..n-1 of the input lies in a window the loop selected
AllCovered(n) ==
  \A k \in 0..(n - 1) :
    \E w \in 1..Len(windows) : windows[w].lo <= k /\ k < windows[w].hi

\* what the heuristic fallback holds before it truncates to maxChunks
MergedSections ==
  MergeSmall(RawChunks(linesOf(text), semanticBoundariesOf(linesOf(text)), 1, <<>>),
             1, <<>>, <<>>)

\* C1: in every result a strategy returns, the chunk at index i has id i and
\* analysis.totalChunks is the number of chunks returned, also after the
\* merge and maxChunks-truncation steps.
IdContiguity ==
  Returned =>
    /\ \A i \in 1..Len(result.chunks) : result.chunks[i].id = i - 1
    /\ result.totalChunks = Len(result.chunks)

\* the heuristic fallback cut its merged chunks down to maxChunks
HeuristicTruncated ==
  /\ Returned
  /\ method = "semantic"
  /\ result.notes.kind = "heuristic"
  /\ Opt(opts, "maxChunks", 0) > 0
  /\ Len(result.chunks) = Opt(opts, "maxChunks", 0)
  /\ Len(MergedSections) > Len(result.chunks)

\* C2: every chunk returned has tokens = the whitespace-token count of its
\* text and characters = the length of its text, chunks built by merging
\* and chunks with a separator appended included.
ChunkMeasures ==
  Returned =>
    \A i \in 1..Len(result.chunks) :
      /\ result.chunks[i].tokens = countTokens(result.chunks[i].text)
      /\ result.chunks[i].characters = Len(result.chunks[i].text)

\* the hybrid merge joined two chunks of a text that has no blank line
HybridMerged ==
  /\ Returned
  /\ method = "hybrid"
  /\ ~Includes(text, <<"\n", "\n">>)
  /\ \E i \in 1..Len(result.chunks) : Includes(result.chunks[i].text, <<"\n", "\n">>)

\* C3: with chunkSize >= 1 and overlap >= 0 the window start advances by a
\* step >= 1 in fixed-length, boundary-snapping and sliding-window chunking,
\* and the loop terminates.
StepPositivity ==
  /\ pc = "done"
  /\ method \in {"fixed-length", "fixed-length-chars", "sliding-window"}
  /\ Opt(opts, "chunkSize", 1) >= 1
  /\ Opt(opts, "overlap", 0) >= 0
  => step >= 1 /\ result.status = "ok"

\* C4: sentence-based, paragraph-based, recursive and hybrid chunking
\* terminate and return a result for every chunkSize >= 1, overlap >= 0 and
\* maxChunks >= 0, overlap >= chunkSize included.
GroupingTerminates ==
  /\ pc = "done"
  /\ method \in {"sentence-based", "paragraph-based", "recursive", "hybrid"}
  /\ Opt(opts, "chunkSize", 1) >= 1
  /\ Opt(opts, "overlap", 0) >= 0
  /\ Opt(opts, "maxChunks", 0) >= 0
  => result.status = "ok"

\* C5: boundary-snapping chunking works with effectiveChunkSize >= 10 and
\* 0 <= effectiveOverlap < effectiveChunkSize, so its step is
\* effectiveChunkSize - effectiveOverlap >= 1, whatever chunkSize and
\* overlap the caller gave.
OverlapClamp ==
  pc = "done" /\ method = "fixed-length-chars" =>
    /\ result.status = "ok"
    /\ result.notes.b >= MinCharsChunkSize
    /\ 0 <= result.notes.c
    /\ result.notes.c < result.notes.b
    /\ step = result.notes.b - result.notes.c
    /\ step >= 1

\* boundary-snapping chunking was called with overlap >= chunkSize
OverlapAboveChunkSize ==
  /\ Returned
  /\ method = "fixed-length-chars"
  /\ "chunkSize" \in DOMAIN opts
  /\ opts.overlap >= opts.chunkSize
  /\ opts.chunkSize >= MinCharsChunkSize
  /\ Len(result.chunks) >= 2

\* C6: with maxChunks > 0, paragraph-based chunking, boundary-snapping
\* chunking, the recursive splitter and semantic chunking (embedding path
\* and heuristic fallback) return at most maxChunks chunks.
MaxChunksCeiling ==
  /\ Returned
  /\ method \in {"paragraph-based", "fixed-length-chars", "recursive", "semantic"}
  /\ Opt(opts, "maxChunks", 0) > 0
  => Len(result.chunks) <= Opt(opts, "maxChunks", 0)

\* C7: sentence-based chunking with maxChunks > 0, chunkSize >= 1 and
\* 0 <= overlap < chunkSize returns at most maxChunks chunks.
SentenceCeiling ==
  /\ Returned
  /\ method = "sentence-based"
  /\ Opt(opts, "maxChunks", 0) > 0
  /\ Opt(opts, "chunkSize", DefaultSentenceChunkSize) >= 1
  /\ Opt(opts, "overlap", 0) >= 0
  /\ Opt(opts, "overlap", 0) < Opt(opts, "chunkSize", DefaultSentenceChunkSize)
  => Len(result.chunks) <= Opt(opts, "maxChunks", 0)

\* C8: fixed-length chunking in token mode with chunkSize >= 1 and
\* 0 <= overlap < chunkSize puts every token of the text, in document
\* order, into at least one chunk.
TokenCoverage ==
  /\ Returned
  /\ method = "fixed-length"
  /\ result.notes.kind = "fixed-tokens"
  /\ Opt(opts, "chunkSize", DefaultFixedChunkSize) >= 1
  /\ Opt(opts, "overlap", 0) >= 0
  /\ Opt(opts, "overlap", 0) < Opt(opts, "chunkSize", DefaultFixedChunkSize)
  /\ countTokens(text) >= 1
  => /\ AllCovered(countTokens(text))
     /\ \A w \in 1..(Len(windows) - 1) : windows[w].lo < windows[w + 1].lo

\* C9: boundary-snapping chunking with maxChunks = 0 puts every character
\* position of a non-empty text inside the span of a chunk, and no window
\* starts after the snapped end of the window before it.
CharacterCoverage ==
  /\ Returned
  /\ method = "fixed-length-chars"
  /\ Opt(opts, "maxChunks", 0) = 0
  /\ text # <<>>
  => /\ AllCovered(Len(text))
     /\ \A w \in 1..(Len(windows) - 1) : windows[w + 1].lo <= windows[w].hi

\* C10: sliding-window chunking with chunkSize >= 1 and overlap >= 0 puts
\* every unit of a non-empty text (token in token mode, character in
\* character mode) into at least one chunk.
WindowCoverage ==
  /\ Returned
  /\ method = "sliding-window"
  /\ Opt(opts, "chunkSize", DefaultWindowChunkSize) >= 1
  /\ Opt(opts, "overlap", DefaultWindowOverlap) >= 0
  /\ text # <<>>
  => IF result.notes.kind = "window-tokens" THEN AllCovered(countTokens(text))
     ELSE AllCovered(Len(text))

\* the units sliding-window chunking counted: tokens or characters
WindowUnits == IF result.notes.kind = "window-tokens" THEN countTokens(text) ELSE Len(text)

\* C11: sliding-window chunking returns at most 100 chunks in token and in
\* character mode, and its windows advance by ceil(length / 100) when the
\* natural step max(1, chunkSize - overlap) would give more than 100 chunks,
\* by the natural step otherwise.
WindowCeiling ==
  Returned /\ method = "sliding-window" =>
    /\ Len(result.chunks) <= WindowMaxChunks
    /\ step = IF CeilDiv(WindowUnits,
                         Max(1, Opt(opts, "chunkSize", DefaultWindowChunkSize)
                                  - Opt(opts, "overlap", DefaultWindowOverlap)))
                   > WindowMaxChunks
              THEN CeilDiv(WindowUnits, WindowMaxChunks)
              ELSE Max(1, Opt(opts, "chunkSize", DefaultWindowChunkSize)
                            - Opt(opts, "overlap", DefaultWindowOverlap))
    /\ \A w \in 1..(Len(windows) - 1) : windows[w + 1].lo = windows[w].lo + step

\* the step was widened and the loop went round more than once
WindowStepWidened ==
  /\ Returned
  /\ method = "sliding-window"
  /\ step > Max(1, Opt(opts, "chunkSize", DefaultWindowChunkSize)
                     - Opt(opts, "overlap", DefaultWindowOverlap))
  /\ Len(result.chunks) >= 2

ProviderFailureFallsBack ==
  /\ pc = "done"
  /\ method = "semantic"
  /\ Opt(opts, "apiKey", "") # ""
  /\ Len(BlankLineParagraphs(text)) >= 2
  /\ \E k \in 1..Len(env) : ~env[k].ok
  => /\ result.status = "ok"
     /\ result = heuristicSemanticChunking(text, opts).res

\* C14: when the recursive splitter fails inside and overlap < chunkSize, it
\* returns the chunks of fixed-length chunking on the same text and options,
\* with analysis notes that differ from those of a fixed-length result.
FallbackSurfaced ==
  /\ pc = "done"
  /\ entry = "ui"
  /\ method = "recursive"
  /\ Opt(opts, "overlap", DefaultRecursiveOverlap)
       < Opt(opts, "chunkSize", DefaultRecursiveChunkSize)
  /\ recursiveSplitThrows(Opt(opts, "chunkingMode", "characters"), text,
                          Opt(opts, "customSeparators", SeparatorList(defaultSeparators)),
                          Opt(opts, "chunkSize", DefaultRecursiveChunkSize))
  => /\ result.status = "ok"
     /\ result.chunks = fixedLengthChunking(text, opts).res.chunks
     /\ result.notes # fixedLengthChunking(text, opts).res.notes

\* what the strategy function named m returns for the request
StrategyResult(m, t, o, answers) ==
  CASE m = "fixed-length"       -> fixedLengthChunking(t, o).res
    [] m = "fixed-length-chars" -> fixedLengthCharsChunking(t, o).res
    [] m = "recursive"          -> recursiveTextSplitter(t, o).res
    [] m = "sentence-based"     -> sentenceBasedChunking(t, o).res
    [] m = "paragraph-based"    -> paragraphBasedChunking(t, o).res
    [] m = "sliding-window"     -> slidingWindowChunking(t, o).res
    [] m = "semantic"           -> semanticChunking(t, o, answers).res
    [] m = "hybrid"             -> hybridChunking(t, o).res
    [] m = "agentic"            -> agenticChunking(t, o).res

\* C15: each entry point answers each of the nine strategy names with the
\* result of exactly that strategy on the caller's text and options, and
\* every other name with the unsupported-method error and no result.
NineNamesDispatched ==
  pc = "done"
    => IF method \in Methods
       THEN result = StrategyResult(method, text, opts, env)
       ELSE result = Thrown("unsupported-method")

\* the chunks of the page that have an embedding
EmbeddedChunks == SelectSeq(finalizedChunks, LAMBDA c : c.embedding # NoEmbedding)

\* C16: the ranker returns min(topK, number of chunks with an embedding)
\* entries, no entry has a higher score than an entry before it, and the
\* entries are distinct chunks of the list that have an embedding.
RankedTopK ==
  ragPc = "queried"
    => /\ Len(queryResults) = Min(query.topK, Len(EmbeddedChunks))
       /\ \A i, j \in 1..Len(queryResults) :
            i < j => ~ScoreGt(queryResults[j].score, queryResults[i].score)
       /\ \A i \in 1..Len(queryResults) :
            \E k \in 1..Len(EmbeddedChunks) :
              /\ queryResults[i].chunkId = EmbeddedChunks[k].id
              /\ queryResults[i].text = EmbeddedChunks[k].text
       /\ \A i, j \in 1..Len(queryResults) :
            i # j => queryResults[i].chunkId # queryResults[j].chunkId

\* C17: whatever the order in which the requests of a batch settle, a chunk
\* that has an embedding has the one the provider returned for the request
\* made with that chunk's text.
IndexMatching ==
  \A k \in 1..Len(finalizedChunks) :
    finalizedChunks[k].embedding # NoEmbedding
      => provider[k].ok /\ finalizedChunks[k].embedding = provider[k].v

\* a pass ended in which a request settled before one issued earlier, and
\* two chunks hold different embeddings
SettledOutOfOrder ==
  /\ ragPc = "done"
  /\ overtaken
  /\ \E j, k \in 1..Len(finalizedChunks) :
       /\ finalizedChunks[j].embedding # NoEmbedding
       /\ finalizedChunks[k].embedding # NoEmbedding
       /\ finalizedChunks[j].embedding # finalizedChunks[k].embedding

RuleHolds(n) ==
  CASE n = 1 -> docStats.hasCode
    [] n = 2 -> docStats.paragraphCount <= 1 /\ docStats.sentenceCount > 10
    [] n = 3 -> docStats.varianceHigh /\ docStats.maxParagraphLength > 1000
    [] n = 4 -> /\ docStats.paragraphCount > 5
                /\ docStats.tokenCount < 50 * docStats.paragraphCount
    [] n = 5 -> docStats.tokenCount > 20 * docStats.sentenceCount
    [] n = 6 -> docStats.tokenCount > 1000
    [] n = 7 -> docStats.structured
    [] OTHER -> TRUE

RuleStrategy(n) ==
  CASE n \in {1, 4, 7} -> "paragraph-based"
    [] n = 2 -> "sentence-based"
    [] n \in {3, 6} -> "hybrid"
    [] n = 5 -> "sliding-window"
    [] OTHER -> "heuristic"

\* C19: the selector invokes the strategy of the first of the eight rules
\* whose condition holds, whichever later rules hold as well.
FirstRuleWins ==
  selected.rule # "none"
    => \A n \in 1..8 :
         RuleHolds(n) /\ (\A m \in 1..(n - 1) : ~RuleHolds(m))
           => selected.strategy = RuleStrategy(n)

\* the selector chose the sliding window for long sentences in a document
\* that is long and has lists or headers as well
LaterRulesHoldToo ==
  /\ selected.rule = "long-sentences"
  /\ selected.strategy = "sliding-window"
  /\ RuleHolds(6)
  /\ RuleHolds(7)

\* C20: every chunk hybrid chunking returns has at most chunkSize tokens
\* (100 when chunkSize is absent or 0).
HybridBudget ==
  Returned /\ method = "hybrid"
    => \A k \in 1..Len(result.chunks) :
         result.chunks[k].tokens <= OptOr(opts, "chunkSize", DefaultHybridChunkSize)

\* the recursive splitter returned a result of its own
RecursiveReturned == Returned /\ entry = "ui" /\ method = "recursive"

\* the size of the whole input in the unit of the request's chunkingMode
InputSize == SizeOf(Opt(opts, "chunkingMode", "characters"), text)

\* C21: when the whole input is within chunkSize in the unit of the mode,
\* the recursive splitter returns one chunk whose text is the input.
WholeInputKept ==
  RecursiveReturned /\ InputSize <= Opt(opts, "chunkSize", DefaultRecursiveChunkSize)
    => Len(result.chunks) = 1 /\ result.chunks[1].text = text

\* an input of exactly chunkSize that holds a separator was returned whole,
\* with overlap and a chunk limit requested
WholeInputAtBudget ==
  /\ RecursiveReturned
  /\ "chunkSize" \in DOMAIN opts
  /\ InputSize = opts.chunkSize
  /\ InputSize >= 2
  /\ Includes(text, <<" ">>)
  /\ Opt(opts, "overlap", DefaultRecursiveOverlap) > 0
  /\ Opt(opts, "maxChunks", 0) > 0
  /\ Len(result.chunks) = 1

\* the fragments recursiveSplit hands to the merge step for the request
RecursiveFragments ==
  recursiveSplit(Opt(opts, "chunkingMode", "characters"), text,
                 Opt(opts, "customSeparators", SeparatorList(defaultSeparators)).items,
                 Opt(opts, "chunkSize", DefaultRecursiveChunkSize))

\* the try body ran to its end: the result is the splitter's own
RecursiveSplitRan ==
  /\ RecursiveReturned
  /\ ~recursiveSplitThrows(Opt(opts, "chunkingMode", "characters"), text,
                           Opt(opts, "customSeparators", SeparatorList(defaultSeparators)),
                           Opt(opts, "chunkSize", DefaultRecursiveChunkSize))

\* C22: with overlap = 0, a returned chunk of the recursive splitter that is
\* not a single fragment, so was joined from several, measures at most
\* chunkSize in the unit of the mode, joiners included.
MergeWithinBudget ==
  RecursiveSplitRan /\ Opt(opts, "overlap", DefaultRecursiveOverlap) = 0
    => \A k \in 1..Len(result.chunks) :
         (\A f \in 1..Len(RecursiveFragments) : RecursiveFragments[f] # result.chunks[k].text)
           => SizeOf(Opt(opts, "chunkingMode", "characters"), result.chunks[k].text)
                <= Opt(opts, "chunkSize", DefaultRecursiveChunkSize)

\* semantic chunking took the embedding path: a credential, two or more
\* paragraphs, and vectors of one length
EmbeddingPathTaken ==
  /\ pc = "done"
  /\ method = "semantic"
  /\ Opt(opts, "apiKey", "") # ""
  /\ Len(BlankLineParagraphs(text)) >= 2
  /\ ~LengthsDiffer([k \in 1..Len(env) |-> getOpenAIEmbeddings(env[k])])

\* the clusters the while loop leaves for the request
ClustersOnExit ==
  Agglomerate([k \in 1..Len(env) |-> getOpenAIEmbeddings(env[k])],
              [k \in 1..Len(BlankLineParagraphs(text)) |-> <<k - 1>>],
              TargetTimes3(Len(BlankLineParagraphs(text)), Opt(opts, "maxChunks", 0)))

\* C23: the clustering loop ends with at most target clusters when
\* target = min(maxChunks, n / 3) (n / 3 for maxChunks = 0) is at least 1,
\* and with exactly one cluster when target is below 1.
ClusteringReachesTarget ==
  EmbeddingPathTaken
    => IF TargetTimes3(Len(BlankLineParagraphs(text)), Opt(opts, "maxChunks", 0)) >= 3
       THEN 3 * Len(ClustersOnExit)
              <= TargetTimes3(Len(BlankLineParagraphs(text)), Opt(opts, "maxChunks", 0))
       ELSE Len(ClustersOnExit) = 1

\* the paragraph indices of the clusters, cluster after cluster
RECURSIVE ClusterMembers(_)
ClusterMembers(clusters) ==
  IF clusters = <<>> THEN <<>> ELSE clusters[1] \o ClusterMembers(Tail(clusters))

\* C24: the clusters the loop leaves are a partition of 0..n-1 into
\* contiguous index ranges in ascending order; without overlap the chunk
\* texts joined by blank lines are the paragraphs joined by blank lines, so
\* every paragraph is in exactly one chunk and the chunks are in document order.
ClustersPartition ==
  EmbeddingPathTaken
    => /\ ClusterMembers(ClustersOnExit)
            = [k \in 1..Len(BlankLineParagraphs(text)) |-> k - 1]
       /\ \A k \in 1..Len(ClustersOnExit) : ClustersOnExit[k] # <<>>
       /\ Opt(opts, "overlap", 0) = 0
            => Join([k \in 1..Len(result.chunks) |-> result.chunks[k].text], <<"\n", "\n">>)
                 = Join(BlankLineParagraphs(text), <<"\n", "\n">>)

\* three paragraphs left as a merged pair and a single paragraph
PairAndSingle ==
  /\ EmbeddingPathTaken
  /\ Opt(opts, "overlap", 0) = 0
  /\ Len(BlankLineParagraphs(text)) = 3
  /\ Len(result.chunks) = 2
  /\ Len(ClustersOnExit) = 2

\* the chunkSize the rule computes from the statistics of the text
ClampedSize(rule, stats) ==
  CASE rule = "code" -> Max(3, Min(5, stats.paragraphCount))
    [] rule = "sentences" -> Max(3, Min(8, CeilDiv(stats.sentenceCount, 3)))
    [] OTHER -> Max(3, Min(10, CeilDiv(stats.paragraphCount, 3)))

\* the chunks of the rule's strategy called with the computed chunkSize
ClampedChunks(rule, stats) ==
  AgenticInner(text, SetOpt(opts, "chunkSize", ClampedSize(rule, stats)), rule).res.chunks

\* C25: when the code rule of the agentic selector fires, the chunks are
\* those of paragraph-based chunking with chunkSize = clamp(paragraphCount, 3, 5),
\* whatever options the caller passed; rules 2 and 4 likewise use their
\* computed values as chunkSize.
ClampedSizeUsed ==
  /\ pc = "done"
  /\ method = "agentic"
  /\ agenticRuleOf(textStatsOf(text)) \in {"code", "sentences", "small-paragraphs"}
  => result.chunks = ClampedChunks(agenticRuleOf(textStatsOf(text)), textStatsOf(text))

\* the heuristic fallback got as far as its small-chunk merge
HeuristicMerged ==
  /\ Returned
  /\ method = "semantic"
  /\ Opt(opts, "apiKey", "") = ""
  /\ result.notes.kind = "heuristic"

\* the raw chunks that start a chunk: the first, and those not small
StartersOf(raw) ==
  SelectSeq([j \in 1..Len(raw) |-> j],
            LAMBDA j : j = 1 \/ raw[j].tokens >= SmallChunkTokens)

\* the raw chunks from one starter up to the next, joined by newlines
RunFrom(raw, starters, k) ==
  Join([j \in 1..((IF k < Len(starters) THEN starters[k + 1] - 1 ELSE Len(raw))
                    - starters[k] + 1) |-> raw[starters[k] + j - 1].text],
       <<"\n">>)

\* chunk k is the run of raw chunks that starter k begins
StartedByLarge(raw, starters, chunks, maxChunks) ==
  /\ Len(chunks) = IF maxChunks > 0 THEN Min(maxChunks, Len(starters)) ELSE Len(starters)
  /\ \A k \in 1..Len(chunks) : chunks[k].text = RunFrom(raw, starters, k)

RawOfText == RawChunks(linesOf(text), semanticBoundariesOf(linesOf(text)), 1, <<>>)

\* C26: after the small-chunk merge of the heuristic fallback every chunk
\* but the first starts with a raw chunk of at least 20 tokens; a raw chunk
\* under 20 tokens that is not the first is joined by a newline onto the
\* chunk before it, and the raw chunks keep their document order.
SmallChunksAbsorbed ==
  HeuristicMerged
    => StartedByLarge(RawOfText, StartersOf(RawOfText), result.chunks,
                      Opt(opts, "maxChunks", 0))

\* a large section started a second chunk, which absorbed a small one
SmallAfterLarge ==
  /\ HeuristicMerged
  /\ Len(RawOfText) = 3
  /\ RawOfText[2].tokens >= SmallChunkTokens
  /\ RawOfText[3].tokens < SmallChunkTokens
  /\ Len(result.chunks) = 2
  /\ result.chunks[2].text = RawOfText[2].text \o <<"\n">> \o RawOfText[3].text

\* C27: during the embedding pass the requests in flight belong to one
\* batch of at most batchSize chunks; requests are issued only when none is
\* in flight, for the chunks of the next batch in ascending index order,
\* and the pass ends only after the batch with the last chunk, so that every
\* chunk is attempted exactly once.
BatchesInTurn ==
  [][/\ Cardinality(inflight') <= batchSize
     /\ inflight' \subseteq BatchIndexes(batchStart', Len(chunksWithEmbeddings'))
     /\ inflight' \ inflight # {}
          => /\ inflight = {}
             /\ batchStart' = IF ragPc = "idle" THEN 0 ELSE batchStart + batchSize
             /\ inflight' = batchStart'..(Min(batchStart' + batchSize,
                                              Len(chunksWithEmbeddings')) - 1)
     /\ ragPc = "batch" /\ ragPc' = "done"
          => /\ inflight = {}
             /\ batchStart + batchSize >= Len(chunksWithEmbeddings)]_vars

\* the second batch is in flight after a first batch whose requests
\* settled out of order
SecondBatchInFlight ==
  /\ ragPc = "batch"
  /\ batchStart = batchSize
  /\ inflight # {}
  /\ overtaken

\* C28: when the embedding request of a query fails, performQuery shows an
\* error and sets neither query results nor an answer for that query; and
\* whenever performQuery has ended (answered, embedding failure, chat
\* failure, no relevant chunks) isQuerying and isGeneratingAnswer are false.
QueryEndsClean ==
  /\ [](QueryAtRest => ~isQuerying /\ ~isGeneratingAnswer)
  /\ [][queryPc = "embedding" /\ queryPc' = "embedding-failed"
          => /\ ragError' # ""
             /\ gptAnswer' = ""
             /\ queryResults' = queryResults
             /\ query' = query]_vars

\* a query whose embedding request failed, after an earlier query that
\* ranked chunks
FailedAfterAnswered ==
  /\ queryPc = "embedding-failed"
  /\ ragError # ""
  /\ gptAnswer = ""
  /\ queryResults # <<>>
  /\ ~isQuerying

\* C29: from resetRag until finalizeChunks runs again the finalized chunk
\* list is empty and embeddingsGenerated is false, also when an embedding
\* pass that was in flight at the reset completes.
ResetStays ==
  ~isRagEnabled => finalizedChunks = <<>> /\ ~embeddingsGenerated

\* C30: restoring the placeholders after protecting the titles and the
\* decimal numbers gives the original text back, for every input of
\* sentence-based chunking, texts that hold a placeholder string included.
PlaceholderRoundTrip ==
  Returned /\ method = "sentence-based"
    => postprocessText(preprocessText(text)) = text

=============================================================================
